---- MODULE Spec2Model ----
(***************************************************************************)
(* tdom-path: the tree rewriting engine (tree.py) and the path resolver    *)
(* (webpath.py).  Python strings are sequences of one-character strings,   *)
(* so that split, lstrip, replace, the regular expression and pathlib's    *)
(* parsing are computed character by character as the code computes them.  *)
(***************************************************************************)
EXTENDS Naturals, Sequences, FiniteSets

VARIABLES
    install,    \* directory under which the resource backend finds packages
    files,      \* the regular files of the file system (resolved part lists)
    heap,       \* the node objects allocated so far; an object's id is its index
    roots,      \* the constructed nodes that have no parent yet, oldest first
    pc,         \* where the caller stands: build, annotated, raised, rendered, direct,
                \* walked, decorated, reannotated, removed, stale, failed
    tree,       \* the root handed to make_path_nodes (0: none yet)
    comp,       \* the component handed to make_path_nodes
    ann,        \* the outcome of make_path_nodes
    strategy,   \* the strategy object: site_prefix, collected_assets, rejected files
    rend,       \* the outcome of the last render_path_nodes call
    nrender,    \* number of render_path_nodes calls made
    call,       \* the last direct call of a helper: its arguments and result
    cache       \* the lru_cache of _get_module_files: its entries, least recently used first

vars == <<install, files, heap, roots, pc, tree, comp, ann, strategy, rend, nrender, call, cache>>

-----------------------------------------------------------------------------
(* Bounds of the model *)

MaxNodes == 2
MaxRenders == 2
MaxCalls == 1
MaxResolves == 2
MaxAssets == 2
MaxResultNodes == 1

-----------------------------------------------------------------------------
(* String literals *)

S_static_styles_css == <<"s", "t", "a", "t", "i", "c", "/", "s", "t", "y", "l", "e", "s", ".", "c", "s", "s">>
S_dot_static_styles_css == <<".", "/", "s", "t", "a", "t", "i", "c", "/", "s", "t", "y", "l", "e", "s", ".", "c", "s", "s">>
S_missing_css == <<"s", "t", "a", "t", "i", "c", "/", "m", "i", "s", "s", "i", "n", "g", ".", "c", "s", "s">>
S_site_app_js == <<"s", "i", "t", "e", ":", "s", "t", "a", "t", "i", "c", "/", "a", "p", "p", ".", "j", "s">>
S_https_cdn == <<"h", "t", "t", "p", "s", ":", "/", "/", "c", "d", "n", "/", "x", ".", "c", "s", "s">>
S_mod_heading == <<"s", "i", "t", "e", ".", "c", "o", "m", "p", "o", "n", "e", "n", "t", "s", ".", "h", "e", "a", "d", "i", "n", "g">>
S_mod_heading_dup == <<"s", "i", "t", "e", ".", "c", "o", "m", "p", "o", "n", "e", "n", "t", "s", ".", "h", "e", "a", "d", "i", "n", "g", ".", "h", "e", "a", "d", "i", "n", "g">>
S_mod_site == <<"s", "i", "t", "e">>
S_unknown == <<"u", "n", "k", "n", "o", "w", "n">>
S_examples == <<"/", "e", "x", "a", "m", "p", "l", "e", "s", "/">>
S_tests == <<"/", "t", "e", "s", "t", "s", "/">>
S_base_examples == <<"/", "w", "/", "e", "x", "a", "m", "p", "l", "e", "s">>
S_base_tests == <<"/", "w", "/", "t", "e", "s", "t", "s">>
S_base_lib == <<"/", "o", "p", "t", "/", "l", "i", "b">>
S_site_static == <<"s", "i", "t", "e", "/", "s", "t", "a", "t", "i", "c">>
S_target_about == <<"s", "i", "t", "e", "/", "p", "a", "g", "e", "s", "/", "a", "b", "o", "u", "t", ".", "h", "t", "m", "l">>
S_target_index == <<"i", "n", "d", "e", "x", ".", "h", "t", "m", "l">>
S_scenario_a == <<".", ".", "/", "c", "o", "m", "p", "o", "n", "e", "n", "t", "s", "/", "h", "e", "a", "d", "i", "n", "g", "/", "s", "t", "a", "t", "i", "c", "/", "s", "t", "y", "l", "e", "s", ".", "c", "s", "s">>
S_srv_index == <<"/", "s", "r", "v", "/", "i", "n", "d", "e", "x", ".", "h", "t", "m", "l">>
S_updir_target == <<"a", "/", ".", ".", "/", "b", "/", "i", "n", "d", "e", "x", ".", "h", "t", "m", "l">>
S_shared_target == <<"s", "i", "t", "e", "/", "c", "o", "m", "p", "o", "n", "e", "n", "t", "s", "/", "h", "e", "a", "d", "i", "n", "g", "/", "s", "t", "a", "t", "i", "c", "/", ".", ".", "/", "i", "n", "d", "e", "x", ".", "h", "t", "m", "l">>
S_dotdot_asset == <<"s", "t", "a", "t", "i", "c", "/", ".", ".", "/", "s", "t", "a", "t", "i", "c", "/", "s", "t", "y", "l", "e", "s", ".", "c", "s", "s">>
S_ghost == <<"g", "h", "o", "s", "t">>
S_rel == <<"r", "e", "l">>
S_stylesheet == <<"s", "t", "y", "l", "e", "s", "h", "e", "e", "t">>
S_app_js == <<"s", "t", "a", "t", "i", "c", "/", "a", "p", "p", ".", "j", "s">>
S_name_app_js == <<"a", "p", "p", ".", "j", "s">>
S_name_styles_css == <<"s", "t", "y", "l", "e", "s", ".", "c", "s", "s">>
S_Heading == <<"H", "e", "a", "d", "i", "n", "g">>
S_Ghost == <<"G", "h", "o", "s", "t">>
S_NoneType == <<"N", "o", "n", "e", "T", "y", "p", "e">>
S_type == <<"t", "y", "p", "e">>
S_href == <<"h", "r", "e", "f">>
S_src == <<"s", "r", "c">>
S_data_icon == <<"d", "a", "t", "a", "-", "i", "c", "o", "n">>
S_msg_asset == <<"A", "s", "s", "e", "t", " ", "n", "o", "t", " ", "f", "o", "u", "n", "d", ":", " ", "'">>
S_msg_attribute == <<"'", " ", "(", "a", "t", "t", "r", "i", "b", "u", "t", "e", ":", " ", "'">>
S_msg_component == <<"'", ",", " ", "c", "o", "m", "p", "o", "n", "e", "n", "t", ":", " ", "'">>
S_msg_in == <<"'", " ", "i", "n", " ", "'">>
S_msg_path == <<"'", ",", " ", "p", "a", "t", "h", ":", " ">>
S_msg_end == <<")">>
S_gone_js == <<"s", "t", "a", "t", "i", "c", "/", "g", "o", "n", "e", ".", "j", "s">>
S_updir_styles == <<".", ".", "/", "s", "t", "a", "t", "i", "c", "/", "s", "t", "y", "l", "e", "s", ".", "c", "s", "s">>
S_updir2_styles == <<".", ".", "/", ".", ".", "/", "s", "t", "a", "t", "i", "c", "/", "s", "t", "y", "l", "e", "s", ".", "c", "s", "s">>
S_hidden_css == <<".", "h", "i", "d", "d", "e", "n", "/", "a", ".", "c", "s", "s">>
S_abs_styles == <<"/", "s", "t", "a", "t", "i", "c", "/", "s", "t", "y", "l", "e", "s", ".", "c", "s", "s">>
S_ghost_x == <<"g", "h", "o", "s", "t", ":", "x", ".", "j", "s">>
S_site_colon == <<"s", "i", "t", "e", ":">>
S_colon_file == <<":", "f", "i", "l", "e", ".", "t", "x", "t">>
S_pkg_sub_file == <<"s", "i", "t", "e", ":", "s", "u", "b", ":", "f", "i", "l", "e", ".", "t", "x", "t">>
S_dot_pkg == <<".", "s", "i", "t", "e", ":", "s", "t", "a", "t", "i", "c", "/", "a", "p", "p", ".", "j", "s">>
S_heading_pkg_styles == <<"s", "i", "t", "e", ".", "c", "o", "m", "p", "o", "n", "e", "n", "t", "s", ".", "h", "e", "a", "d", "i", "n", "g", ":", "s", "t", "a", "t", "i", "c", "/", "s", "t", "y", "l", "e", "s", ".", "c", "s", "s">>
S_pkg_sub_file_txt == <<"p", "k", "g", ":", "s", "u", "b", ":", "f", "i", "l", "e", ".", "t", "x", "t">>
S_pkg_colon == <<"p", "k", "g", ":">>
S_file_txt_colon == <<"f", "i", "l", "e", ".", "t", "x", "t", ":">>
S_pkg == <<"p", "k", "g">>
S_sub_file_txt == <<"s", "u", "b", ":", "f", "i", "l", "e", ".", "t", "x", "t">>
S_file_txt == <<"f", "i", "l", "e", ".", "t", "x", "t">>
S_screen == <<"s", "c", "r", "e", "e", "n">>
S_static == <<"s", "t", "a", "t", "i", "c">>
S_site_static_app_dslash == <<"s", "i", "t", "e", ":", "s", "t", "a", "t", "i", "c", "/", "/", "a", "p", "p", ".", "j", "s">>
S_static_styles_dslash == <<"s", "t", "a", "t", "i", "c", "/", "/", "s", "t", "y", "l", "e", "s", ".", "c", "s", "s">>
S_heading == <<"h", "e", "a", "d", "i", "n", "g">>
S_render == <<"r", "e", "n", "d", "e", "r">>
S_str == <<"s", "t", "r">>
S_modified == <<"m", "o", "d", "i", "f", "i", "e", "d">>

-----------------------------------------------------------------------------
(* Python str operations.  Every intermediate result is handed on as an     *)
(* operator argument, the way the code binds it to a local variable.        *)

\* s.startswith(p)
StartsWith(s, p) == Len(p) <= Len(s) /\ SubSeq(s, 1, Len(p)) = p

\* s.find(sub) + 1: the least position at which sub occurs in s, 0 when none
RECURSIVE FindFrom(_, _, _)
FindFrom(s, sub, i) ==
    IF i + Len(sub) - 1 > Len(s) THEN 0
    ELSE IF SubSeq(s, i, i + Len(sub) - 1) = sub THEN i
    ELSE FindFrom(s, sub, i + 1)

Find(s, sub) == FindFrom(s, sub, 1)

\* sub in s
Contains(s, sub) == Find(s, sub) # 0

\* s.split(sep, 1), sep found at position i: one element when sep does not occur
SplitAt(s, sep, i) ==
    IF i = 0 THEN <<s>>
    ELSE <<SubSeq(s, 1, i - 1), SubSeq(s, i + Len(sep), Len(s))>>

SplitOnce(s, sep) == SplitAt(s, sep, Find(s, sep))

\* s.split(c) for a one-character separator: empty pieces are kept; cur is the
\* piece being read
RECURSIVE SplitChar(_, _, _)
SplitChar(s, c, cur) ==
    IF s = <<>> THEN <<cur>>
    ELSE IF Head(s) = c THEN <<cur>> \o SplitChar(Tail(s), c, <<>>)
    ELSE SplitChar(Tail(s), c, Append(cur, Head(s)))

Split(s, c) == SplitChar(s, c, <<>>)

\* sep.join(parts)
RECURSIVE Join(_, _)
Join(parts, sep) ==
    IF parts = <<>> THEN <<>>
    ELSE IF Len(parts) = 1 THEN parts[1]
    ELSE parts[1] \o sep \o Join(Tail(parts), sep)

\* s.lstrip(chars): drops every leading character that is in chars
RECURSIVE LStrip(_, _)
LStrip(s, chars) ==
    IF s # <<>> /\ Head(s) \in chars THEN LStrip(Tail(s), chars) ELSE s

\* s.replace(a, b) for single characters a, b
Replace(s, a, b) == [i \in 1..Len(s) |-> IF s[i] = a THEN b ELSE s[i]]

UpperCase == <<"A", "B", "C", "D", "E", "F", "G", "H", "I", "J", "K", "L", "M",
               "N", "O", "P", "Q", "R", "S", "T", "U", "V", "W", "X", "Y", "Z">>
LowerCase == <<"a", "b", "c", "d", "e", "f", "g", "h", "i", "j", "k", "l", "m",
               "n", "o", "p", "q", "r", "s", "t", "u", "v", "w", "x", "y", "z">>

\* re.IGNORECASE on the ASCII letters: a character matches in either case
FoldCase(c) ==
    IF \E i \in DOMAIN UpperCase : UpperCase[i] = c
    THEN LowerCase[CHOOSE i \in DOMAIN UpperCase : UpperCase[i] = c]
    ELSE c

-----------------------------------------------------------------------------
(* pathlib.PurePosixPath: a root ("", "/" or "//") and the list of parts *)

LeadingSlashes(s) == Len(s) - Len(LStrip(s, {"/"}))

\* the root of a string with n leading slashes: exactly two are kept as "//"
RootOf(n) == IF n = 0 THEN <<>> ELSE IF n = 2 THEN <<"/", "/">> ELSE <<"/">>

IsPart(x) == x # <<>> /\ x # <<".">>

\* PurePosixPath(s): empty and "." segments are dropped, ".." segments are kept
PurePosixPath(s) ==
    [root |-> RootOf(LeadingSlashes(s)), parts |-> SelectSeq(Split(s, "/"), IsPart)]

\* p / q for two paths: an absolute right operand replaces the left one
TruedivPath(p, q) ==
    IF q.root # <<>> THEN q ELSE [root |-> p.root, parts |-> p.parts \o q.parts]

\* p / s for a path and a string
Truediv(p, s) == TruedivPath(p, PurePosixPath(s))

\* str(p)
PathStr(p) ==
    IF p.root = <<>> /\ p.parts = <<>> THEN <<".">>
    ELSE p.root \o Join(p.parts, <<"/">>)

\* p.parent: the path without its last part; a path without parts is its own parent
Parent(p) ==
    IF p.parts = <<>> THEN p
    ELSE [root |-> p.root, parts |-> SubSeq(p.parts, 1, Len(p.parts) - 1)]

IsPrefix(a, b) == Len(a) <= Len(b) /\ SubSeq(b, 1, Len(a)) = a

Repeat(x, n) == [i \in 1..n |-> x]

\* self.relative_to(other, walk_up=True).  pathlib tries other and then each of its
\* parents, nearest first (k parts of other are left at the k-th try), and stops at
\* the first one that is self or an ancestor of self; a tried path named ".." cannot
\* be walked up, and when every try fails the anchors differ.  ok = FALSE is
\* ValueError.
RECURSIVE RelativeToFrom(_, _, _)
RelativeToFrom(self, other, k) ==
    IF other.root = self.root /\ IsPrefix(SubSeq(other.parts, 1, k), self.parts)
    THEN [ok   |-> TRUE,
          path |-> [root  |-> <<>>,
                    parts |-> Repeat(<<".", ".">>, Len(other.parts) - k)
                              \o SubSeq(self.parts, k + 1, Len(self.parts))]]
    ELSE IF k = 0 THEN [ok |-> FALSE, path |-> self]
    ELSE IF other.parts[k] = <<".", ".">> THEN [ok |-> FALSE, path |-> self]
    ELSE RelativeToFrom(self, other, k - 1)

RelativeTo(self, other) == RelativeToFrom(self, other, Len(other.parts))

-----------------------------------------------------------------------------
(* Attribute values: a str, None, a _TraversableWithPath (a Resolved Asset     *)
(* Reference), a bare Traversable, or some other object                        *)

Str(s) == [k |-> "str", s |-> s]
None == [k |-> "none"]
TraversableWithPath(t, p) == [k |-> "ref", traversable |-> t, module_path |-> p]
BareTraversable(t) == [k |-> "trav", traversable |-> t]
OtherObject == [k |-> "int"]

\* isinstance(v, (Traversable, _TraversableWithPath))
IsPathValue(v) == v.k \in {"ref", "trav"}

-----------------------------------------------------------------------------
(* tree.py: the Classifier *)

Ch(c) == [ch |-> c, opt |-> FALSE]
Opt(c) == [ch |-> c, opt |-> TRUE]
Literal(s) == [i \in 1..Len(s) |-> Ch(s[i])]

\* ^(https?://|//|mailto:|tel:|data:|javascript:|#) : the alternatives, each a
\* list of characters of which some are optional
EXTERNAL_URL_PATTERN ==
    << Literal(<<"h", "t", "t", "p">>) \o <<Opt("s")>> \o Literal(<<":", "/", "/">>),
       Literal(<<"/", "/">>),
       Literal(<<"m", "a", "i", "l", "t", "o", ":">>),
       Literal(<<"t", "e", "l", ":">>),
       Literal(<<"d", "a", "t", "a", ":">>),
       Literal(<<"j", "a", "v", "a", "s", "c", "r", "i", "p", "t", ":">>),
       Literal(<<"#">>) >>

\* whether the items match a prefix of s, letters compared in either case
RECURSIVE MatchItems(_, _)
MatchItems(items, s) ==
    IF items = <<>> THEN TRUE
    ELSE \/ /\ s # <<>>
            /\ FoldCase(Head(s)) = Head(items).ch
            /\ MatchItems(Tail(items), Tail(s))
         \/ /\ Head(items).opt
            /\ MatchItems(Tail(items), s)

\* pattern.match(s): the pattern is anchored at the start of s
ReMatch(pattern, s) == \E i \in DOMAIN pattern : MatchItems(pattern[i], s)

\* variant of the Classifier without the emptiness test
should_process_href_nonempty_unchecked(href) ==
    IF href.k # "str" THEN FALSE
    ELSE ~ReMatch(EXTERNAL_URL_PATTERN, href.s)

should_process_href(href) ==
    IF href.k # "str" \/ href.s = <<>> THEN FALSE
    ELSE ~ReMatch(EXTERNAL_URL_PATTERN, href.s)

-----------------------------------------------------------------------------
(* The resource backend (importlib.resources over a file system) *)

\* the importable packages
KnownPackages == {S_mod_heading, S_mod_site}

\* the regular files of the packages, below the install directory
PackageFiles ==
    { <<S_mod_heading, S_static_styles_css>>,
      <<S_mod_site, S_app_js>> }

\* the directory of package q below the install directory base
PackageDir(base, q) == Truediv(PurePosixPath(base), Replace(q, ".", "/"))

FilesUnder(base) == { Truediv(PackageDir(base, f[1]), f[2]).parts : f \in PackageFiles }

\* the file system's view of a part list: each ".." cancels the part before it
RECURSIVE ResolveParts(_, _)
ResolveParts(done, todo) ==
    IF todo = <<>> THEN done
    ELSE IF Head(todo) = <<".", ".">>
         THEN ResolveParts(IF done = <<>> THEN done ELSE SubSeq(done, 1, Len(done) - 1),
                           Tail(todo))
         ELSE ResolveParts(Append(done, Head(todo)), Tail(todo))

\* Traversable.is_file()
is_file(t) == ResolveParts(<<>>, t.parts) \in files

\* importlib.resources.files(name): ValueError for the empty name, TypeError for a
\* relative name (it starts with a dot), ModuleNotFoundError for an unknown package
ResourceFiles(name) ==
    IF name \in KnownPackages
    THEN [err |-> "none", val |-> PackageDir(install, name)]
    ELSE IF name = <<>>
    THEN [err |-> "ValueError", val |-> "Empty module name"]
    ELSE IF Head(name) = "."
    THEN [err |-> "TypeError", val |-> "relative import"]
    ELSE [err |-> "ModuleNotFoundError", val |-> name]

-----------------------------------------------------------------------------
(* webpath.py: the resolver *)

detect_path_type(asset) == IF Contains(asset, <<":">>) THEN "package" ELSE "relative"

\* variant of NormalizedFrom that drops final segments as long as the last two are
\* identical
RECURSIVE NormalizedRepeatedly(_, _)
NormalizedRepeatedly(module_name, parts) ==
    IF Len(parts) >= 2 /\ parts[Len(parts)] = parts[Len(parts) - 1]
    THEN NormalizedRepeatedly(Join(SubSeq(parts, 1, Len(parts) - 1), <<".">>),
                              SubSeq(parts, 1, Len(parts) - 1))
    ELSE module_name

\* the return of _normalize_module_name, parts being module_name.split(".")
NormalizedFrom(module_name, parts) ==
    IF Len(parts) >= 2 /\ parts[Len(parts)] = parts[Len(parts) - 1]
    THEN Join(SubSeq(parts, 1, Len(parts) - 1), <<".">>)
    ELSE module_name

normalize_module_name(module_name) == NormalizedFrom(module_name, Split(module_name, "."))

\* variant of ParsedFrom that splits at every colon and keeps the first two pieces
ParsedFromEveryColon(asset, parts) ==
    IF Len(Split(asset, ":")) >= 2 THEN <<Split(asset, ":")[1], Split(asset, ":")[2]>>
    ELSE <<asset, <<>>>>

\* the return of _parse_package_path, parts being asset.split(":", 1)
ParsedFrom(asset, parts) ==
    IF Len(parts) = 2 THEN <<parts[1], parts[2]>> ELSE <<asset, <<>>>>

parse_package_path(asset) == ParsedFrom(asset, SplitOnce(asset, <<":">>))

\* @lru_cache(maxsize=128)
CACHE_MAXSIZE == 128

\* variant of CacheIndex that takes the oldest entry for every key
CacheIndexAny(entries, key) == IF entries = <<>> THEN 0 ELSE 1

\* the position of the entry for the key, 0 when there is none
CacheIndex(entries, key) ==
    IF \E i \in DOMAIN entries : entries[i].key = key
    THEN CHOOSE i \in DOMAIN entries : entries[i].key = key
    ELSE 0

\* a hit: the cached value, and the entry becomes the most recently used
CacheHit(entries, i) ==
    [err |-> "none", val |-> entries[i].val,
     cache |-> SubSeq(entries, 1, i - 1) \o SubSeq(entries, i + 1, Len(entries))
               \o <<entries[i]>>]

\* the entries with a new one: beyond maxsize the least recently used one goes
CacheWith(entries, key, val) ==
    IF Len(entries) >= CACHE_MAXSIZE
    THEN Append(Tail(entries), [key |-> key, val |-> val])
    ELSE Append(entries, [key |-> key, val |-> val])

\* a miss: files(module_name) is called; its result is cached, an exception is not
CacheMiss(entries, key, found) ==
    IF found.err # "none" THEN [err |-> found.err, val |-> found.val, cache |-> entries]
    ELSE [err |-> "none", val |-> found.val, cache |-> CacheWith(entries, key, found.val)]

\* the cached function, entries being the cache at the call
CachedFrom(entries, module_name, i) ==
    IF i # 0 THEN CacheHit(entries, i)
    ELSE CacheMiss(entries, module_name, ResourceFiles(module_name))

get_module_files(entries, module_name) ==
    CachedFrom(entries, module_name, CacheIndex(entries, module_name))

\* the for loops over split("/"): the parts for which result = result / part is
\* executed; with skip (if part:) the empty parts are left out
NonEmptyPart(part) == part # <<>>
Passed(parts, skip) == IF skip THEN SelectSeq(parts, NonEmptyPart) ELSE parts

\* result = result / part for each of these parts, in order
RECURSIVE Descend(_, _)
Descend(result, parts) ==
    IF parts = <<>> THEN result
    ELSE Descend(Truediv(result, Head(parts)), Tail(parts))

Navigate(result, parts, skip) == Descend(result, Passed(parts, skip))

\* _resolve_package_path after package_root = _get_module_files(package_name); an
\* exception of the backend propagates
ResolveFrom(package_root, resource_path) ==
    IF package_root.err # "none" THEN package_root
    ELSE IF resource_path # <<>>
    THEN [err |-> "none",
          val |-> Navigate(package_root.val, Split(resource_path, "/"), FALSE),
          cache |-> package_root.cache,
          steps |-> Passed(Split(resource_path, "/"), FALSE)]
    ELSE package_root

resolve_package_path(entries, package_name, resource_path) ==
    ResolveFrom(get_module_files(entries, package_name), resource_path)

\* make_traversable's package branch, parsed being _parse_package_path(asset)
ResolveParsed(entries, parsed) == resolve_package_path(entries, parsed[1], parsed[2])

\* make_traversable's relative branch after module_root = _get_module_files(...)
RelativeFrom(module_root, clean_asset) ==
    IF module_root.err # "none" THEN module_root
    ELSE [err |-> "none", val |-> Navigate(module_root.val, Split(clean_asset, "/"), TRUE),
          cache |-> module_root.cache,
          steps |-> Passed(Split(clean_asset, "/"), TRUE)]

\* variant of make_traversable that takes "unknown" for the module of a component
\* without __module__
make_traversable_unknown_module(entries, component, asset) ==
    IF detect_path_type(asset) = "package"
    THEN ResolveParsed(entries, parse_package_path(asset))
    ELSE RelativeFrom(get_module_files(entries,
                          normalize_module_name(IF component.hasModule
                                                THEN component.module ELSE S_unknown)),
                      LStrip(asset, {".", "/"}))

\* make_traversable(component, asset), entries being the cache at the call: the
\* result or the exception, and the cache after the call
make_traversable(entries, component, asset) ==
    IF detect_path_type(asset) = "package"
    THEN ResolveParsed(entries, parse_package_path(asset))
    ELSE IF ~component.hasModule
    THEN [err |-> "TypeError", val |-> component.id, cache |-> entries]
    ELSE RelativeFrom(get_module_files(entries, normalize_module_name(component.module)),
                      LStrip(asset, {".", "/"}))

-----------------------------------------------------------------------------
(* Nodes.  An object of the heap is a record: type (Element, TraversableElement, *)
(* Fragment, Text), tag, attrs (the dict, as its list of items in insertion      *)
(* order) and children (the list of the children's ids).                         *)

Attr(name, value) == [name |-> name, value |-> value]

\* attrs.get(name): None when the key is absent
AttrGet(attrs, name) ==
    IF \E i \in DOMAIN attrs : attrs[i].name = name
    THEN attrs[CHOOSE i \in DOMAIN attrs : attrs[i].name = name].value
    ELSE None

\* attrs[name] = value: an existing key keeps its place, a new one goes last
AttrSet(attrs, name, value) ==
    IF \E i \in DOMAIN attrs : attrs[i].name = name
    THEN [i \in DOMAIN attrs |-> IF attrs[i].name = name THEN Attr(name, value) ELSE attrs[i]]
    ELSE Append(attrs, Attr(name, value))

IsElement(n) == n.type \in {"Element", "TraversableElement"}

\* the result of a step of a walk: the heap and the side effects so far (st), the
\* returned object (id) or the exception raised (err, info)
Returned(st, id) == [st |-> st, id |-> id, err |-> "none", info |-> <<>>]
Raised(st, err, info) == [st |-> st, id |-> 0, err |-> err, info |-> info]

\* a constructor call: the new object is appended to the heap
New(st, node) == Returned([st EXCEPT !.heap = Append(st.heap, node)], Len(st.heap) + 1)

Logged(st, event) == [st EXCEPT !.log = Append(st.log, event)]

-----------------------------------------------------------------------------
(* tree.py: the Validator and the Annotate transform *)

\* the characters of an attribute name or of a class name
Chars(name) ==
    CASE name = "href" -> S_href
      [] name = "src" -> S_src
      [] name = "data-icon" -> S_data_icon
      [] name = "Heading" -> S_Heading
      [] name = "Ghost" -> S_Ghost
      [] name = "NoneType" -> S_NoneType
      [] name = "type" -> S_type
      [] name = "heading" -> S_heading
      [] name = "render" -> S_render
      [] name = "str" -> S_str

\* variant of ErrorMsg that does not name the attribute
ErrorMsgWithoutAttribute(name, attr_name, component_name, module_name, path) ==
    S_msg_asset \o name \o S_msg_component \o Chars(component_name)
        \o S_msg_in \o module_name \o S_msg_path \o path \o S_msg_end

\* error_msg: the f-string, its fields in the order they are written
ErrorMsg(name, attr_name, component_name, module_name, path) ==
    S_msg_asset \o name \o S_msg_attribute \o Chars(attr_name)
        \o S_msg_component \o Chars(component_name)
        \o S_msg_in \o module_name \o S_msg_path \o path \o S_msg_end

validate_asset_exists(asset_path, component, attr_name) ==
    IF ~is_file(asset_path)
    THEN [err  |-> "FileNotFoundError",
          info |-> [asset |-> IF asset_path.parts = <<>> THEN <<>>
                              ELSE asset_path.parts[Len(asset_path.parts)],
                    attribute |-> attr_name,
                    component |-> IF component.hasName THEN component.name
                                  ELSE component.className,
                    module |-> IF component.hasModule THEN component.module ELSE S_unknown,
                    path |-> PathStr(asset_path),
                    message |->
                        ErrorMsg(IF asset_path.parts = <<>> THEN <<>>
                                 ELSE asset_path.parts[Len(asset_path.parts)],
                                 attr_name,
                                 IF component.hasName THEN component.name
                                 ELSE component.className,
                                 IF component.hasModule THEN component.module
                                 ELSE S_unknown,
                                 PathStr(asset_path))]]
    ELSE [err |-> "none", info |-> <<>>]

\* module_path: the component's normalized module in slash form, joined with the
\* attribute string stripped of its leading dots and slashes
ModulePath(component, attr_value) ==
    Truediv(PurePosixPath(Replace(normalize_module_name(
                IF component.hasModule THEN component.module ELSE S_unknown), ".", "/")),
            LStrip(attr_value, {".", "/"}))

\* variant of WithAttrs that sets the attribute on the element itself
WithAttrsInPlace(st, element, attrs) ==
    Returned([st EXCEPT !.heap[CHOOSE n \in DOMAIN st.heap : st.heap[n] = element] =
                  [type |-> "TraversableElement", tag |-> element.tag, attrs |-> attrs,
                   children |-> element.children]],
             CHOOSE n \in DOMAIN st.heap : st.heap[n] = element)

\* variant of WithAttrs that builds the element without the children
WithAttrsNoChildren(st, element, attrs) ==
    New(st, [type |-> "TraversableElement", tag |-> element.tag, attrs |-> attrs,
             children |-> <<>>])

\* the element _transform_asset_element returns once attrs[attr_name] is set
WithAttrs(st, element, attrs) ==
    New(st, [type |-> IF \E i \in DOMAIN attrs : IsPathValue(attrs[i].value)
                      THEN "TraversableElement" ELSE "Element",
             tag |-> element.tag,
             attrs |-> attrs,
             children |-> element.children])

\* variant of AfterValidate in which a failed existence check leaves the element
\* as it was instead of raising
AfterValidateSkipping(st, e, attr_name, component, asset, asset_path, checked) ==
    IF checked.err # "none" THEN Returned(st, e)
    ELSE WithAttrs(st, st.heap[e],
                   AttrSet(st.heap[e].attrs, attr_name,
                           TraversableWithPath(asset_path, ModulePath(component, asset))))

\* after _validate_asset_exists(asset_path, component, attr_name)
AfterValidate(st, e, attr_name, component, asset, asset_path, checked) ==
    IF checked.err # "none" THEN Raised(st, checked.err, checked.info)
    ELSE WithAttrs(st, st.heap[e],
                   AttrSet(st.heap[e].attrs, attr_name,
                           TraversableWithPath(asset_path, ModulePath(component, asset))))

\* variant of AfterResolve that leaves the element as it was when the resolver
\* raises
AfterResolveLenient(st, e, attr_name, component, asset, made) ==
    IF made.err # "none" THEN Returned([st EXCEPT !.cache = made.cache], e)
    ELSE AfterValidate(Logged([st EXCEPT !.cache = made.cache],
                              [op |-> "is_file", path |-> made.val,
                               ret |-> is_file(made.val)]),
                       e, attr_name, component, asset, made.val,
                       validate_asset_exists(made.val, component, attr_name))

\* after asset_path = make_path(component, attr_value)
AfterResolve(st, e, attr_name, component, asset, made) ==
    IF made.err # "none" THEN Raised([st EXCEPT !.cache = made.cache], made.err, made.val)
    ELSE AfterValidate(Logged([st EXCEPT !.cache = made.cache],
                              [op |-> "is_file", path |-> made.val,
                               ret |-> is_file(made.val)]),
                       e, attr_name, component, asset, made.val,
                       validate_asset_exists(made.val, component, attr_name))

\* variant of AfterGet that returns a copy of an element it does not transform
AfterGetCopying(st, e, attr_name, component, attr_value) ==
    IF ~should_process_href(attr_value) THEN New(st, st.heap[e])
    ELSE AfterResolve(Logged(st, [op |-> "resolve", asset |-> attr_value.s]),
                      e, attr_name, component, attr_value.s,
                      make_traversable(st.cache, component, attr_value.s))

\* after attr_value = element.attrs.get(attr_name)
AfterGet(st, e, attr_name, component, attr_value) ==
    IF ~should_process_href(attr_value) THEN Returned(st, e)
    ELSE AfterResolve(Logged(st, [op |-> "resolve", asset |-> attr_value.s]),
                      e, attr_name, component, attr_value.s,
                      make_traversable(st.cache, component, attr_value.s))

transform_asset_element(st, e, attr_name, component) ==
    AfterGet(st, e, attr_name, component, AttrGet(st.heap[e].attrs, attr_name))

\* variant of make_path_nodes.transform that treats the href of every element
\* other than script as a link's
annotate_transform_any_href(st, n, component) ==
    IF IsElement(st.heap[n]) /\ st.heap[n].tag = "script"
    THEN transform_asset_element(st, n, "src", component)
    ELSE IF IsElement(st.heap[n])
    THEN transform_asset_element(st, n, "href", component)
    ELSE Returned(st, n)

\* make_path_nodes.transform
annotate_transform(st, n, component) ==
    IF IsElement(st.heap[n]) /\ st.heap[n].tag = "link"
    THEN transform_asset_element(st, n, "href", component)
    ELSE IF IsElement(st.heap[n]) /\ st.heap[n].tag = "script"
    THEN transform_asset_element(st, n, "src", component)
    ELSE Returned(st, n)

-----------------------------------------------------------------------------
(* tree.py: the Render Strategy and the Render transform *)

NoPrefix == [some |-> FALSE]
Prefix(p) == [some |-> TRUE, path |-> p]

\* the fallback for a bare Traversable: what follows "/examples/" or "/tests/" in
\* its absolute path, else the absolute path
ModuleRelative(abs_path_str) ==
    IF Contains(abs_path_str, S_examples)
    THEN PurePosixPath(SplitOnce(abs_path_str, S_examples)[2])
    ELSE IF Contains(abs_path_str, S_tests)
    THEN PurePosixPath(SplitOnce(abs_path_str, S_tests)[2])
    ELSE PurePosixPath(abs_path_str)

SourcePath(source) ==
    IF source.k = "ref" THEN source.module_path
    ELSE ModuleRelative(PathStr(source.traversable))

\* variant of RelativeOrSelf whose fallback is the empty string
RelativeOrEmpty(source_path, relative_path) ==
    IF relative_path.ok THEN PathStr(relative_path.path) ELSE <<>>

\* the try / except ValueError around relative_to
RelativeOrSelf(source_path, relative_path) ==
    IF relative_path.ok THEN PathStr(relative_path.path) ELSE PathStr(source_path)

\* calculate_path once source_path is known
PathFrom(site_prefix, source_path, target) ==
    IF site_prefix.some THEN PathStr(TruedivPath(site_prefix.path, source_path))
    ELSE RelativeOrSelf(source_path, RelativeTo(source_path, Parent(target)))

\* RelativePathStrategy.calculate_path(source, target); site_prefix is self.site_prefix
calculate_path(site_prefix, source, target) ==
    PathFrom(site_prefix, SourcePath(source), target)

AssetReference(source, module_path) == [source |-> source, module_path |-> module_path]

\* variant of CollectedWith that collects nothing
CollectedNothing(assets, attr_value, strat) == assets

\* strategy.collected_assets after the loop body has seen attr_value
CollectedWith(assets, attr_value, strat) ==
    IF attr_value.k = "ref" /\ strat.hasCollected
    THEN assets \cup {AssetReference(attr_value.traversable, attr_value.module_path)}
    ELSE assets

\* new_attrs[attr_name] for attr_value: a _TraversableWithPath is unwrapped and its
\* Traversable handed to the strategy
RenderedValue(attr_value, target, strat) ==
    IF attr_value.k = "ref"
    THEN Str(calculate_path(strat.site_prefix, BareTraversable(attr_value.traversable),
                            target))
    ELSE IF attr_value.k = "trav"
    THEN Str(calculate_path(strat.site_prefix, attr_value, target))
    ELSE attr_value

\* strategy.calculate_path(source, target) raises: RelativePathStrategy never
\* does, a caller's strategy does for the files it rejects
Rejects(strat, attr_value) ==
    /\ IsPathValue(attr_value)
    /\ attr_value.traversable.parts # <<>>
    /\ attr_value.traversable.parts[Len(attr_value.traversable.parts)] \in strat.rejects

\* variant of AttrStep that adds the Asset Reference after calculate_path returned
AttrStepCollectingAfter(acc, attr, target, strat) ==
    IF Rejects(strat, attr.value)
    THEN [acc EXCEPT !.err = "ValueError"]
    ELSE [new_attrs |-> Append(acc.new_attrs,
                               Attr(attr.name, RenderedValue(attr.value, target, strat))),
          assets |-> CollectedWith(acc.assets, attr.value, strat),
          err |-> "none"]

\* one pass of the loop body: the Asset Reference is added, then calculate_path is
\* called, and its exception leaves the loop
AttrStep(acc, attr, target, strat) ==
    IF Rejects(strat, attr.value)
    THEN [acc EXCEPT !.assets = CollectedWith(acc.assets, attr.value, strat),
                     !.err = "ValueError"]
    ELSE [new_attrs |-> Append(acc.new_attrs,
                               Attr(attr.name, RenderedValue(attr.value, target, strat))),
          assets |-> CollectedWith(acc.assets, attr.value, strat),
          err |-> "none"]

\* the loop over node.attrs.items(): attrs[1..i-1] are done, acc holds new_attrs, the
\* strategy's collected_assets and the exception that left the loop
RECURSIVE RenderAttrs(_, _, _, _, _)
RenderAttrs(attrs, i, acc, target, strat) ==
    IF i > Len(attrs) \/ acc.err # "none" THEN acc
    ELSE RenderAttrs(attrs, i + 1, AttrStep(acc, attrs[i], target, strat), target, strat)

\* the plain Element built from new_attrs, or the exception of calculate_path; the
\* strategy keeps what the loop has added to collected_assets
RenderedElement(st, node, done) ==
    IF done.err # "none" THEN Raised([st EXCEPT !.assets = done.assets], done.err, <<>>)
    ELSE New([st EXCEPT !.assets = done.assets],
             [type |-> "Element", tag |-> node.tag, attrs |-> done.new_attrs,
              children |-> node.children])

\* variant of render_transform_node that checks, as the Annotate Phase does, that
\* the file of every reference exists
render_transform_node_checking(st, n, target, strat) ==
    IF st.heap[n].type # "TraversableElement" THEN Returned(st, n)
    ELSE IF \E i \in DOMAIN st.heap[n].attrs :
               /\ st.heap[n].attrs[i].value.k = "ref"
               /\ ~is_file(st.heap[n].attrs[i].value.traversable)
    THEN Raised(st, "FileNotFoundError", <<>>)
    ELSE IF ~\E i \in DOMAIN st.heap[n].attrs : IsPathValue(st.heap[n].attrs[i].value)
    THEN Returned(st, n)
    ELSE RenderedElement(st, st.heap[n],
                         RenderAttrs(st.heap[n].attrs, 1,
                                     [new_attrs |-> <<>>, assets |-> st.assets,
                                      err |-> "none"],
                                     target, strat))

render_transform_node(st, n, target, strat) ==
    IF st.heap[n].type # "TraversableElement" THEN Returned(st, n)
    ELSE IF ~\E i \in DOMAIN st.heap[n].attrs : IsPathValue(st.heap[n].attrs[i].value)
    THEN Returned(st, n)
    ELSE RenderedElement(st, st.heap[n],
                         RenderAttrs(st.heap[n].attrs, 1,
                                     [new_attrs |-> <<>>, assets |-> st.assets,
                                      err |-> "none"],
                                     target, strat))

-----------------------------------------------------------------------------
(* tree.py: the Walker, and the two phases built on it *)

\* the transform of test_walk_tree_transformation_and_immutability, for the elements
\* of one tag: a new Element with other attributes and the same children
modify_p(st, n, tag) ==
    IF IsElement(st.heap[n]) /\ st.heap[n].tag = tag
    THEN New(st, [type |-> "Element", tag |-> tag,
                  attrs |-> <<Attr("id", Str(S_modified))>>,
                  children |-> st.heap[n].children])
    ELSE Returned(st, n)

\* a transform_fn that returns, for an Element with children, a new Element without
\* them
prune(st, n) ==
    IF IsElement(st.heap[n]) /\ st.heap[n].children # <<>>
    THEN New(st, [type |-> "Element", tag |-> st.heap[n].tag,
                  attrs |-> st.heap[n].attrs, children |-> <<>>])
    ELSE Returned(st, n)

\* a transform_fn a caller hands to _walk_tree: lambda node: node, modify_p, prune
caller_transform(st, n, fn) ==
    IF fn = "identity" THEN Returned(st, n)
    ELSE IF fn = "modify_p" THEN modify_p(st, n, "script")
    ELSE prune(st, n)

\* transform_fn(node): the closure of make_path_nodes or of render_path_nodes, or a
\* caller's function
CallTransform(tf, st, n) ==
    IF tf.kind = "annotate" THEN annotate_transform(st, n, tf.component)
    ELSE IF tf.kind = "render" THEN render_transform_node(st, n, tf.target, tf.strategy)
    ELSE caller_transform(st, n, tf.fn)

\* transformed = transform_fn(node); the call is noted in the log
ApplyTransform(tf, st, n) ==
    CallTransform(tf, Logged(st, [op |-> "transform", node |-> n]), n)

RECURSIVE walk_tree(_, _, _)
RECURSIVE WalkChildren(_, _, _, _)

\* one step of the comprehension: w is _walk_tree(child, transform_fn); an exception
\* ends the comprehension
WalkedChild(w, children, tf, ids) ==
    IF w.err # "none" THEN [st |-> w.st, ids |-> ids, err |-> w.err, info |-> w.info]
    ELSE WalkChildren(w.st, children, tf, Append(ids, w.id))

\* [_walk_tree(child, transform_fn) for child in children]: ids are the results so
\* far, the children after them are still to be walked
WalkChildren(st, children, tf, ids) ==
    IF Len(ids) = Len(children) THEN [st |-> st, ids |-> ids, err |-> "none", info |-> <<>>]
    ELSE WalkedChild(walk_tree(st, children[Len(ids) + 1], tf), children, tf, ids)

\* variant of Rebuilt that builds a new node whether or not a child changed
RebuiltAlways(t, transformed, w) ==
    IF w.err # "none" THEN Raised(w.st, w.err, w.info)
    ELSE IF IsElement(transformed)
    THEN New(w.st, [type |-> "Element", tag |-> transformed.tag,
                    attrs |-> transformed.attrs, children |-> w.ids])
    ELSE New(w.st, [type |-> "Fragment", tag |-> "", attrs |-> <<>>,
                    children |-> w.ids])

\* after new_children is computed: a new plain Element (or Fragment) when some
\* child is another object, else the transformed node itself
Rebuilt(t, transformed, w) ==
    IF w.err # "none" THEN Raised(w.st, w.err, w.info)
    ELSE IF \E i \in DOMAIN transformed.children : w.ids[i] # transformed.children[i]
    THEN IF IsElement(transformed)
         THEN New(w.st, [type |-> "Element", tag |-> transformed.tag,
                         attrs |-> transformed.attrs, children |-> w.ids])
         ELSE New(w.st, [type |-> "Fragment", tag |-> "", attrs |-> <<>>,
                         children |-> w.ids])
    ELSE Returned(w.st, t.id)

\* variant of Transformed that recurses into the children of the node handed to
\* transform_fn instead of those of the node it returned
TransformedOriginal(t, original, tf) ==
    IF t.err # "none" THEN t
    ELSE IF (IsElement(original) \/ original.type = "Fragment") /\ original.children # <<>>
    THEN Rebuilt(t, [t.st.heap[t.id] EXCEPT !.children = original.children],
                 WalkChildren(t.st, original.children, tf, <<>>))
    ELSE t

\* variant of walk_tree built on it
walk_tree_original_children(st, node, tf) ==
    TransformedOriginal(ApplyTransform(tf, st, node), st.heap[node], tf)

\* match transformed: an Element or a Fragment with children is recursed into
Matched(t, transformed, tf) ==
    IF (IsElement(transformed) \/ transformed.type = "Fragment")
       /\ transformed.children # <<>>
    THEN Rebuilt(t, transformed, WalkChildren(t.st, transformed.children, tf, <<>>))
    ELSE t

\* after transformed = transform_fn(node); an exception of transform_fn propagates
Transformed(t, tf) ==
    IF t.err # "none" THEN t ELSE Matched(t, t.st.heap[t.id], tf)

walk_tree(st, node, tf) == Transformed(ApplyTransform(tf, st, node), tf)

make_path_nodes(st, target, component) ==
    walk_tree(st, target, [kind |-> "annotate", component |-> component])

render_path_nodes(st, root, target, strat) ==
    walk_tree(st, root, [kind |-> "render", target |-> target, strategy |-> strat])

\* path_nodes.wrapper, the choice of the component: args[0] is read when
\* func_or_method is a bound method or args[0] has a __dict__
wrapper_component(f, args) ==
    IF f.ismethod \/ (args # <<>> /\ args[1].hasDict)
    THEN IF args = <<>> THEN [err |-> "IndexError"]
         ELSE [err |-> "none", component |-> args[1].obj]
    ELSE [err |-> "none", component |-> f.obj]

\* after the component is chosen: return make_path_nodes(result, component)
AfterComponent(st, result, chosen) ==
    IF chosen.err # "none" THEN Raised(st, chosen.err, <<>>)
    ELSE make_path_nodes(st, result, chosen.component)

\* after result = func_or_method(*args, **kwargs); returned is what the call came to
AfterCall(st, f, args, returned) ==
    IF returned.err # "none" THEN Raised(st, returned.err, <<>>)
    ELSE AfterComponent(st, returned.id, wrapper_component(f, args))

\* path_nodes(func_or_method)(*args, **kwargs); the call of func_or_method is noted
\* in the log
wrapper(st, f, args, kwargs, returned) ==
    AfterCall(Logged(st, [op |-> "func_or_method", args |-> args, kwargs |-> kwargs]),
              f, args, returned)

-----------------------------------------------------------------------------
(* The callers: the inputs they choose from *)

\* where the packages are installed: a source checkout's examples or tests
\* directory, or a library directory
Installs == {S_base_examples, S_base_tests, S_base_lib}

\* a class of module site.components.heading.heading; None; a class whose module
\* cannot be imported
Heading == [id |-> "Heading", hasModule |-> TRUE, module |-> S_mod_heading_dup,
            hasName |-> TRUE, name |-> "Heading", className |-> "type"]
NoneComponent == [id |-> "None", hasModule |-> FALSE, module |-> <<>>,
                  hasName |-> FALSE, name |-> "", className |-> "NoneType"]
Ghost == [id |-> "Ghost", hasModule |-> TRUE, module |-> S_ghost,
          hasName |-> TRUE, name |-> "Ghost", className |-> "type"]

Components == {Heading, NoneComponent, Ghost}

\* an instance of the class Heading: it has the class's __module__ and no __name__
HeadingObject == [id |-> "Heading()", hasModule |-> TRUE, module |-> S_mod_heading_dup,
                  hasName |-> FALSE, name |-> "", className |-> "Heading"]

ElementKind(tag, attrs) == [type |-> "Element", tag |-> tag, attrs |-> attrs]

\* the nodes a caller builds: elements with and without eligible attributes, a
\* Fragment and a Text
NodeKinds ==
    { ElementKind("link", <<Attr("rel", Str(S_stylesheet)), Attr("href", Str(S_static_styles_css))>>),
      ElementKind("link", <<Attr("href", Str(S_missing_css))>>),
      ElementKind("link", <<Attr("href", Str(S_https_cdn)), Attr("src", Str(S_static_styles_css))>>),
      ElementKind("link", <<Attr("href", None)>>),
      ElementKind("script", <<Attr("src", Str(S_site_app_js)), Attr("defer", None)>>),
      ElementKind("script", <<Attr("src", Str(<<>>))>>),
      ElementKind("script", <<Attr("src", Str(S_gone_js))>>),
      ElementKind("script", <<Attr("href", Str(S_static_styles_css))>>),
      ElementKind("img", <<Attr("src", Str(S_static_styles_css))>>),
      ElementKind("a", <<Attr("href", Str(S_static_styles_css))>>),
      ElementKind("div", <<>>),
      [type |-> "Fragment", tag |-> "", attrs |-> <<>>],
      [type |-> "Text", tag |-> "", attrs |-> <<>>] }

\* tdom: a void element cannot have children; a Text has none
VOID_ELEMENTS == {"link", "img"}

MayHaveChildren(kind) ==
    kind.type = "Fragment" \/ (kind.type = "Element" /\ kind.tag \notin VOID_ELEMENTS)

Targets == {PurePosixPath(S_target_about), PurePosixPath(S_target_index)}

SitePrefixes == {NoPrefix, Prefix(PurePosixPath(S_site_static))}

\* the attribute values handed to the Classifier in a direct call
ClassifierHeads ==
    { <<"h", "t", "t", "p", ":", "/", "/">>,
      <<"h", "t", "t", "p", "s", ":", "/", "/">>,
      <<"/", "/">>,
      <<"m", "a", "i", "l", "t", "o", ":">>,
      <<"t", "e", "l", ":">>,
      <<"d", "a", "t", "a", ":">>,
      <<"j", "a", "v", "a", "s", "c", "r", "i", "p", "t", ":">>,
      <<"#">>,
      <<"H", "T", "T", "P", ":", "/", "/">>,
      <<"H", "t", "T", "p", "S", ":", "/", "/">>,
      <<"M", "A", "I", "L", "T", "O", ":">>,
      <<"T", "e", "l", ":">>,
      <<"D", "A", "T", "A", ":">>,
      <<"J", "a", "v", "a", "S", "c", "r", "i", "p", "t", ":">>,
      <<"h", "t", "t", "p", ":", "/">>,
      <<"h", "t", "t", "p", "s", ":">>,
      <<"h", "t", "t", "p", "s", "s", ":", "/", "/">>,
      <<"h", "t", "t">>,
      <<"/">>,
      <<"m", "a", "i", "l", "t", "o">>,
      <<"t", "e", "l">>,
      <<"d", "a", "t", "a">>,
      <<"j", "a", "v", "a", "s", "c", "r", "i", "p", "t">>,
      <<"f", "t", "p", ":", "/", "/">>,
      <<".", "/">>,
      <<".", ".", "/">>,
      <<>>,
      <<"x", "#">>,
      <<"x", "/", "/">> }

ClassifierTails == { <<>>, <<"x">>, <<"a", ".", "c", "s", "s">> }

ClassifierInputs ==
    {Str(h \o t) : h \in ClassifierHeads, t \in ClassifierTails} \cup {None, OtherObject}

\* the Resolved Asset Reference _transform_asset_element builds for an asset string
RefFor(component, asset, made) ==
    TraversableWithPath(made.val, ModulePath(component, asset))

\* the sources of a direct calculate_path call: the references annotate builds for
\* existing assets, and their bare handles
DirectRefs ==
    { RefFor(ca[1], ca[2], make_traversable(<<>>, ca[1], ca[2])) :
        ca \in { <<Heading, S_static_styles_css>>, <<Heading, S_dot_static_styles_css>>,
                 <<Heading, S_dotdot_asset>>, <<NoneComponent, S_site_app_js>> } }

DirectSources == DirectRefs \cup { BareTraversable(r.traversable) : r \in DirectRefs }

DirectTargets ==
    Targets \cup { PurePosixPath(S_srv_index), PurePosixPath(S_updir_target),
                   PurePosixPath(S_shared_target) }

\* the nodes of a direct _render_transform_node call: a TraversableElement with
\* references in href and in a custom attribute next to strings and None, one with a
\* bare Traversable, one without any path value, a plain Element that holds a
\* reference, a Fragment and a Text
RenderNodes ==
    { [type |-> "TraversableElement", tag |-> "link",
       attrs |-> <<Attr("rel", Str(S_stylesheet)),
                   Attr("href", RefFor(Heading, S_static_styles_css,
                                       make_traversable(<<>>, Heading, S_static_styles_css))),
                   Attr("data-icon", RefFor(NoneComponent, S_site_app_js,
                                            make_traversable(<<>>, NoneComponent,
                                                             S_site_app_js))),
                   Attr("data-test", None),
                   Attr("media", Str(S_screen))>>,
       children |-> <<>>],
      [type |-> "TraversableElement", tag |-> "script",
       attrs |-> <<Attr("src", BareTraversable(make_traversable(<<>>, Heading,
                                                                S_static_styles_css).val))>>,
       children |-> <<>>],
      [type |-> "TraversableElement", tag |-> "div",
       attrs |-> <<Attr("class", Str(S_screen))>>, children |-> <<>>],
      [type |-> "Element", tag |-> "script",
       attrs |-> <<Attr("src", RefFor(Heading, S_static_styles_css,
                                      make_traversable(<<>>, Heading, S_static_styles_css)))>>,
       children |-> <<>>],
      [type |-> "Fragment", tag |-> "", attrs |-> <<>>, children |-> <<>>],
      [type |-> "Text", tag |-> "", attrs |-> <<>>, children |-> <<>>] }

\* the fields of the Asset References a caller adds to collected_assets itself
AddSources ==
    { make_traversable(<<>>, Heading, S_static_styles_css).val,
      make_traversable(<<>>, NoneComponent, S_site_app_js).val }

AddModulePaths ==
    { ModulePath(Heading, S_static_styles_css), ModulePath(NoneComponent, S_site_app_js) }

\* the handles of a direct _validate_asset_exists call: two files, a path that
\* does not exist and a directory
ValidateHandles ==
    { make_traversable(<<>>, Heading, S_static_styles_css).val,
      make_traversable(<<>>, NoneComponent, S_site_app_js).val,
      make_traversable(<<>>, Heading, S_missing_css).val,
      Truediv(PackageDir(install, S_mod_site), S_static) }

ValidateComponents == Components \cup {HeadingObject}

\* the asset strings of a direct _detect_path_type or _parse_package_path call
ParseAssets ==
    { S_pkg_sub_file_txt, S_pkg_colon, S_colon_file, S_file_txt_colon, S_site_app_js,
      S_heading_pkg_styles, <<":">>, <<>>, S_static_styles_css, S_dot_static_styles_css,
      S_updir_styles }

\* object(): neither __module__ nor __name__
PlainObject == [id |-> "object()", hasModule |-> FALSE, module |-> <<>>,
                hasName |-> FALSE, name |-> "", className |-> "object"]

\* the arguments of a direct make_traversable call
ResolveComponents == ValidateComponents \cup {PlainObject}

ResolveAssets ==
    { S_static_styles_css, S_dot_static_styles_css, S_updir_styles, S_updir2_styles,
      S_hidden_css, S_abs_styles, S_missing_css, S_dotdot_asset,
      S_site_app_js, S_heading_pkg_styles, S_ghost_x, S_site_colon, S_colon_file,
      S_pkg_sub_file, S_dot_pkg, S_site_static_app_dslash, S_static_styles_dslash }

AttrNames == {"href", "src", "data-icon"}

NoComponent == [id |-> "unset"]
NoOutcome == [status |-> "none"]
NoStrategy == [made |-> FALSE]

\* RelativePathStrategy(site_prefix=...): collected_assets starts empty
RelativePathStrategy(site_prefix) ==
    [made |-> TRUE, kind |-> "RelativePathStrategy", site_prefix |-> site_prefix,
     hasCollected |-> TRUE, collected_assets |-> {}, rejects |-> {}]

\* a caller's implementation of the RenderStrategy protocol: calculate_path raises
\* ValueError for the file names in rejects and answers as RelativePathStrategy()
\* for the others; the object has a collected_assets set or no such attribute
CallerStrategy(hasCollected, rejects) ==
    [made |-> TRUE, kind |-> "caller", site_prefix |-> NoPrefix,
     hasCollected |-> hasCollected, collected_assets |-> {}, rejects |-> rejects]

CallerStrategies ==
    { CallerStrategy(TRUE, {S_name_app_js}), CallerStrategy(TRUE, {S_name_styles_css}),
      CallerStrategy(FALSE, {}) }
NoCall == [op |-> "none", n |-> 0]

-----------------------------------------------------------------------------
(* The state machine *)

Init ==
    /\ install \in Installs
    /\ files = FilesUnder(install)
    /\ heap = <<>>
    /\ roots = <<>>
    /\ pc = "build"
    /\ tree = 0
    /\ comp = NoComponent
    /\ ann = NoOutcome
    /\ strategy = NoStrategy
    /\ rend = NoOutcome
    /\ nrender = 0
    /\ call = NoCall
    /\ cache = <<>>

\* Element(...), Fragment(...), Text(...): the new node adopts the k newest nodes that have
\* no parent yet, in the order they were built.  The caller builds one tree of at
\* most MaxNodes nodes: nodes left without a parent still fit under a later root.
Construct ==
    /\ pc = "build"
    /\ Len(heap) < MaxNodes
    /\ \E kind \in NodeKinds, k \in 0..Len(roots) :
          /\ k > 0 => MayHaveChildren(kind)
          /\ Len(roots) = k \/ Len(heap) + 1 < MaxNodes
          /\ heap' = Append(heap, [type |-> kind.type, tag |-> kind.tag,
                                   attrs |-> kind.attrs,
                                   children |-> SubSeq(roots, Len(roots) - k + 1,
                                                       Len(roots))])
          /\ roots' = Append(SubSeq(roots, 1, Len(roots) - k), Len(heap) + 1)
    /\ UNCHANGED <<install, files, pc, tree, comp, ann, strategy, rend, nrender, call, cache>>

\* make_path_nodes(roots[1], component), for some component
MakePathNodes ==
    /\ pc = "build"
    /\ Len(roots) = 1
    /\ \E component \in Components :
       \E r \in {make_path_nodes([heap |-> heap, log |-> <<>>, assets |-> {},
                                  cache |-> cache],
                                 roots[1], component)} :
          /\ heap' = r.st.heap
          /\ cache' = r.st.cache
          /\ ann' = [status |-> IF r.err = "none" THEN "ok" ELSE "raised",
                     root |-> r.id, err |-> r.err, info |-> r.info, log |-> r.st.log]
          /\ pc' = IF r.err = "none" THEN "annotated" ELSE "raised"
          /\ comp' = component
    /\ tree' = roots[1]
    /\ UNCHANGED <<install, files, roots, strategy, rend, nrender, call>>

\* a caller that builds no tree and calls the helpers directly
AtDirect == (pc = "build" /\ heap = <<>>) \/ pc = "direct"

\* strategy = RelativePathStrategy(site_prefix), for the renders or the direct
\* calls that follow
NewStrategy ==
    /\ ~strategy.made
    /\ pc = "annotated" \/ (AtDirect /\ call.n = 0 /\ cache = <<>>)
    /\ \E site_prefix \in SitePrefixes : strategy' = RelativePathStrategy(site_prefix)
    /\ pc' = IF pc = "build" THEN "direct" ELSE pc
    /\ UNCHANGED <<install, files, heap, roots, tree, comp, ann, rend, nrender, call, cache>>

\* strategy = an object of the caller that implements the RenderStrategy protocol
NewCallerStrategy ==
    /\ ~strategy.made
    /\ pc = "annotated" \/ (AtDirect /\ call.n = 0 /\ cache = <<>>)
    /\ \E made \in CallerStrategies : strategy' = made
    /\ pc' = IF pc = "build" THEN "direct" ELSE pc
    /\ UNCHANGED <<install, files, heap, roots, tree, comp, ann, rend, nrender, call, cache>>

\* the trees the caller renders: the annotated tree, and the tree the last render
\* returned
RenderRoots == {ann.root} \cup (IF rend.status = "ok" THEN {rend.root} ELSE {})

\* render_path_nodes(root, target, strategy), for some of these trees and some
\* target; a strategy of the caller serves one render
RenderPathNodes ==
    /\ pc \in {"annotated", "rendered", "removed"}
    /\ strategy.made
    /\ nrender < MaxRenders
    /\ strategy.kind = "caller" => nrender = 0
    /\ \E root \in RenderRoots, target \in Targets :
       \E r \in {render_path_nodes([heap |-> heap, log |-> <<>>,
                                    assets |-> strategy.collected_assets,
                                    cache |-> cache],
                                   root, target, strategy)} :
          /\ heap' = r.st.heap
          /\ strategy' = [strategy EXCEPT !.collected_assets = r.st.assets]
          /\ rend' = [status |-> IF r.err = "none" THEN "ok" ELSE "raised",
                      root |-> r.id, target |-> target, input |-> root,
                      again |-> (rend.status = "ok" /\ root = rend.root),
                      before |-> strategy.collected_assets, log |-> r.st.log,
                      err |-> r.err]
          /\ pc' = IF r.err # "none" THEN "failed"
                   ELSE IF pc = "removed" THEN "stale" ELSE "rendered"
    /\ nrender' = nrender + 1
    /\ UNCHANGED <<install, files, roots, tree, comp, ann, call, cache>>

\* make_path_nodes(annotated, component2), for some component: the tree the first
\* call returned is handed to a second call
MakePathNodesAgain ==
    /\ pc = "annotated"
    /\ ~strategy.made
    /\ \E component2 \in Components :
       \E r \in {make_path_nodes([heap |-> heap, log |-> <<>>, assets |-> {},
                                  cache |-> cache],
                                 ann.root, component2)} :
          /\ heap' = r.st.heap
          /\ cache' = r.st.cache
          /\ call' = [op |-> "make_path_nodes_again", n |-> call.n + 1,
                      component |-> component2, ret |-> r.id, err |-> r.err,
                      log |-> r.st.log, before |-> heap, cache_before |-> cache]
    /\ pc' = "reannotated"
    /\ UNCHANGED <<install, files, roots, tree, comp, ann, strategy, rend, nrender>>

\* the files the annotated tree refers to are deleted between the two phases; one
\* render follows
RemoveAssets ==
    /\ pc = "annotated"
    /\ strategy.made
    /\ nrender = 0
    /\ \E n \in DOMAIN heap : \E i \in DOMAIN heap[n].attrs : heap[n].attrs[i].value.k = "ref"
    /\ files' = files \ UNION { { ResolveParts(<<>>, heap[n].attrs[i].value.traversable.parts) :
                                    i \in {j \in DOMAIN heap[n].attrs :
                                              heap[n].attrs[j].value.k = "ref"} } :
                                  n \in DOMAIN heap }
    /\ pc' = "removed"
    /\ UNCHANGED <<install, heap, roots, tree, comp, ann, strategy, rend, nrender, call, cache>>

\* _should_process_href(href), for some attribute value
CallShouldProcessHref ==
    /\ AtDirect
    /\ ~strategy.made
    /\ call.n < MaxCalls
    /\ pc' = "direct"
    /\ \E href \in ClassifierInputs :
          call' = [op |-> "should_process_href", n |-> call.n + 1, href |-> href,
                   ret |-> should_process_href(href)]
    /\ UNCHANGED <<install, files, heap, roots, tree, comp, ann, strategy, rend, nrender, cache>>

\* strategy.calculate_path(source, target), for some source and target: the
\* strategy's fields are only read
CallCalculatePath ==
    /\ AtDirect
    /\ call.n < MaxCalls
    /\ strategy.made
    /\ strategy.kind = "RelativePathStrategy"
    /\ pc' = "direct"
    /\ \E source \in DirectSources, target \in DirectTargets :
          call' = [op |-> "calculate_path", n |-> call.n + 1, source |-> source,
                   target |-> target,
                   ret |-> calculate_path(strategy.site_prefix, source, target),
                   before |-> strategy.collected_assets]
    /\ UNCHANGED <<install, files, heap, roots, tree, comp, ann, strategy, rend, nrender, cache>>

\* _validate_asset_exists(asset_path, component, attr_name), for some handle,
\* component and attribute name
CallValidateAssetExists ==
    /\ AtDirect
    /\ ~strategy.made
    /\ call.n < MaxCalls
    /\ pc' = "direct"
    /\ \E asset_path \in ValidateHandles, component \in ValidateComponents,
          attr_name \in AttrNames :
          call' = [op |-> "validate_asset_exists", n |-> call.n + 1,
                   asset_path |-> asset_path, component |-> component,
                   attr_name |-> attr_name,
                   ret |-> validate_asset_exists(asset_path, component, attr_name)]
    /\ UNCHANGED <<install, files, heap, roots, tree, comp, ann, strategy, rend, nrender, cache>>

\* _detect_path_type(asset), for some asset string
CallDetectPathType ==
    /\ AtDirect
    /\ ~strategy.made
    /\ call.n < MaxCalls
    /\ pc' = "direct"
    /\ \E asset \in ParseAssets :
          call' = [op |-> "detect_path_type", n |-> call.n + 1, asset |-> asset,
                   ret |-> detect_path_type(asset)]
    /\ UNCHANGED <<install, files, heap, roots, tree, comp, ann, strategy, rend, nrender, cache>>

\* _parse_package_path(asset), for some asset string
CallParsePackagePath ==
    /\ AtDirect
    /\ ~strategy.made
    /\ call.n < MaxCalls
    /\ pc' = "direct"
    /\ \E asset \in ParseAssets :
          call' = [op |-> "parse_package_path", n |-> call.n + 1, asset |-> asset,
                   ret |-> parse_package_path(asset)]
    /\ UNCHANGED <<install, files, heap, roots, tree, comp, ann, strategy, rend, nrender, cache>>

\* make_traversable(component, asset), for some component and asset string
CallMakeTraversable ==
    /\ AtDirect
    /\ ~strategy.made
    /\ call.n < MaxResolves
    /\ call.op \in {"none", "make_traversable", "cache_clear"}
    /\ pc' = "direct"
    /\ \E component \in ResolveComponents, asset \in ResolveAssets :
       \E r \in {make_traversable(cache, component, asset)} :
          /\ call' = [op |-> "make_traversable", n |-> call.n + 1,
                      component |-> component, asset |-> asset,
                      ret |-> [err |-> r.err, val |-> r.val], before |-> cache,
                      steps |-> IF "steps" \in DOMAIN r THEN r.steps ELSE <<>>]
          /\ cache' = r.cache
    /\ UNCHANGED <<install, files, heap, roots, tree, comp, ann, strategy, rend, nrender>>

\* _get_module_files.cache_clear()
CacheClear ==
    /\ AtDirect
    /\ ~strategy.made
    /\ cache # <<>>
    /\ pc' = "direct"
    /\ cache' = <<>>
    /\ call' = [op |-> "cache_clear", n |-> call.n]
    /\ UNCHANGED <<install, files, heap, roots, tree, comp, ann, strategy, rend, nrender>>

\* _render_transform_node(node, target, strategy), for some node the caller has
\* built and some target: the node is object 1 of the call, a new element object 2
CallRenderTransformNode ==
    /\ AtDirect
    /\ strategy.made
    /\ call.n < MaxCalls
    /\ pc' = "direct"
    /\ \E node \in RenderNodes, target \in Targets :
       \E r \in {render_transform_node([heap |-> <<node>>, log |-> <<>>,
                                        assets |-> strategy.collected_assets,
                                        cache |-> cache],
                                       1, target, strategy)} :
          /\ call' = [op |-> "render_transform_node", n |-> call.n + 1, node |-> node,
                      target |-> target,
                      ret |-> IF r.err = "none" THEN r.st.heap[r.id] ELSE node,
                      same |-> (r.id = 1), err |-> r.err,
                      before |-> strategy.collected_assets]
          /\ strategy' = [strategy EXCEPT !.collected_assets = r.st.assets]
    /\ UNCHANGED <<install, files, heap, roots, tree, comp, ann, rend, nrender, cache>>

\* strategy.collected_assets.add(AssetReference(source=..., module_path=...)):
\* the set keeps one of the entries that are equal as dataclass instances
AddCollectedAsset ==
    /\ AtDirect
    /\ strategy.made
    /\ strategy.hasCollected
    /\ Cardinality(strategy.collected_assets) < MaxAssets
    /\ pc' = "direct"
    /\ \E source \in AddSources, module_path \in AddModulePaths :
          /\ strategy' = [strategy EXCEPT !.collected_assets =
                              @ \cup {AssetReference(source, module_path)}]
          /\ call' = [op |-> "add", n |-> call.n,
                      ref |-> AssetReference(source, module_path),
                      before |-> strategy.collected_assets]
    /\ UNCHANGED <<install, files, heap, roots, tree, comp, ann, rend, nrender, cache>>

\* a function component defined in the package site.components.heading itself, and
\* a bound method of an instance of Heading
HeadingFunction == [id |-> "heading", hasModule |-> TRUE, module |-> S_mod_heading,
                    hasName |-> TRUE, name |-> "heading", className |-> "function"]
BoundRender == [id |-> "Heading().render", hasModule |-> TRUE, module |-> S_mod_heading_dup,
                hasName |-> TRUE, name |-> "render", className |-> "method"]

\* a str argument: it has no __dict__, no __module__ and no __name__
TextArg == [id |-> "'Hello'", hasModule |-> FALSE, module |-> <<>>,
            hasName |-> FALSE, name |-> "", className |-> "str"]

\* the callables handed to path_nodes
Callables == {[obj |-> HeadingFunction, ismethod |-> FALSE],
              [obj |-> BoundRender, ismethod |-> TRUE]}

\* the (args, kwargs) of a call of the wrapper
Invocations ==
    { [args |-> <<>>, kwargs |-> {}],
      [args |-> <<>>, kwargs |-> {"text"}],
      [args |-> <<[obj |-> HeadingObject, hasDict |-> TRUE]>>, kwargs |-> {}],
      [args |-> <<[obj |-> TextArg, hasDict |-> FALSE]>>, kwargs |-> {"text"}],
      [args |-> <<[obj |-> TextArg, hasDict |-> FALSE],
                  [obj |-> HeadingObject, hasDict |-> TRUE]>>, kwargs |-> {}] }

\* path_nodes(f)(*args, **kwargs), for some callable and arguments; f returns the
\* tree the caller built, of at most MaxResultNodes nodes, or raises
CallPathNodes ==
    /\ pc = "build"
    /\ Len(roots) = 1
    /\ Len(heap) <= MaxResultNodes
    /\ \E f \in Callables, inv \in Invocations, f_raises \in BOOLEAN :
       \E r \in {wrapper([heap |-> heap, log |-> <<>>, assets |-> {}, cache |-> cache],
                          f, inv.args, inv.kwargs,
                          IF f_raises THEN [err |-> "RuntimeError", id |-> 0]
                          ELSE [err |-> "none", id |-> roots[1]])} :
          /\ heap' = r.st.heap
          /\ cache' = r.st.cache
          /\ call' = [op |-> "path_nodes", n |-> call.n + 1, f |-> f, args |-> inv.args,
                      kwargs |-> inv.kwargs, f_raises |-> f_raises, result |-> roots[1],
                      ret |-> r.id, err |-> r.err, info |-> r.info, log |-> r.st.log,
                      before |-> heap, cache_before |-> cache,
                      chosen |-> wrapper_component(f, inv.args)]
    /\ pc' = "decorated"
    /\ tree' = roots[1]
    /\ UNCHANGED <<install, files, roots, comp, ann, strategy, rend, nrender>>

\* the module names of a direct _normalize_module_name call
ModuleNames ==
    { S_mod_heading_dup, S_mod_heading, S_mod_site, <<"s", "i", "m", "p", "l", "e">>, <<"a", ".", "b", ".", "b">>, <<"a", ".", "b", ".", "b", ".", "b">>, <<"a", ".", "b">>,
      <<"a", ".", "b", ".", "a">>, <<"b", ".", "b">>, <<>>, <<"a", ".", ".">>, <<".">> }

\* _normalize_module_name(module_name), for some module name
CallNormalizeModuleName ==
    /\ AtDirect
    /\ ~strategy.made
    /\ call.n < MaxCalls
    /\ pc' = "direct"
    /\ \E module_name \in ModuleNames :
          call' = [op |-> "normalize_module_name", n |-> call.n + 1,
                   module_name |-> module_name,
                   ret |-> normalize_module_name(module_name)]
    /\ UNCHANGED <<install, files, heap, roots, tree, comp, ann, strategy, rend, nrender,
                   cache>>

\* the transform functions a caller hands to _walk_tree
CallerTransforms == {"identity", "modify_p", "prune"}

\* _walk_tree(roots[1], transform_fn), for some transform function of the caller
CallWalkTree ==
    /\ pc = "build"
    /\ Len(roots) = 1
    /\ \E fn \in CallerTransforms :
       \E r \in {walk_tree([heap |-> heap, log |-> <<>>, assets |-> {}, cache |-> cache],
                            roots[1], [kind |-> "caller", fn |-> fn])} :
          /\ heap' = r.st.heap
          /\ call' = [op |-> "walk_tree", n |-> call.n + 1, fn |-> fn, root |-> roots[1],
                      ret |-> r.id, err |-> r.err, log |-> r.st.log, before |-> heap]
    /\ pc' = "walked"
    /\ tree' = roots[1]
    /\ UNCHANGED <<install, files, roots, comp, ann, strategy, rend, nrender, cache>>

\* the two phases, rendered with a RelativePathStrategy, and the calls of a caller
\* that reads a strategy's answer, normalizes a module name or decorates a component
Next ==
    \/ Construct
    \/ CallPathNodes
    \/ CallNormalizeModuleName
    \/ MakePathNodes
    \/ NewStrategy
    \/ RenderPathNodes
    \/ CallCalculatePath

Spec == Init /\ [][Next]_vars

\* the two phases with a caller that walks trees with its own transform functions,
\* annotates a tree twice, deletes files between the phases and renders with its
\* own strategies
NextCallers ==
    \/ Construct
    \/ MakePathNodes
    \/ CallWalkTree
    \/ MakePathNodesAgain
    \/ RemoveAssets
    \/ NewCallerStrategy
    \/ RenderPathNodes
    \/ CallRenderTransformNode

SpecCallers == Init /\ [][NextCallers]_vars

\* a caller that builds no tree and calls the helpers directly
NextDirect ==
    \/ NewStrategy
    \/ CallShouldProcessHref
    \/ CallCalculatePath
    \/ AddCollectedAsset
    \/ CallValidateAssetExists
    \/ CallMakeTraversable
    \/ CacheClear
    \/ CallDetectPathType
    \/ CallParsePackagePath
    \/ CallRenderTransformNode

SpecDirect == Init /\ [][NextDirect]_vars

-----------------------------------------------------------------------------
(* Properties.  Trees are read from the heap: objects are never mutated, so the *)
(* input tree of a call is still there after it.                                *)

\* the nodes of the tree rooted at n
RECURSIVE Subtree(_)
Subtree(n) ==
    {n} \cup UNION { Subtree(heap[n].children[i]) : i \in DOMAIN heap[n].children }

\* the pairs of nodes that stand at the same position of the trees rooted at a, b
RECURSIVE Aligned(_, _)
Aligned(a, b) ==
    {<<a, b>>} \cup UNION { Aligned(heap[a].children[i], heap[b].children[i]) :
                              i \in DOMAIN heap[a].children \cap DOMAIN heap[b].children }

\* the two trees have the same shape
SameShape(a, b) ==
    \A ab \in Aligned(a, b) : Len(heap[ab[1]].children) = Len(heap[ab[2]].children)

\* the prefixes that make an attribute value external
ExternalPrefixes ==
    { <<"h", "t", "t", "p", ":", "/", "/">>,
      <<"h", "t", "t", "p", "s", ":", "/", "/">>,
      <<"/", "/">>,
      <<"m", "a", "i", "l", "t", "o", ":">>,
      <<"t", "e", "l", ":">>,
      <<"d", "a", "t", "a", ":">>,
      <<"j", "a", "v", "a", "s", "c", "r", "i", "p", "t", ":">>,
      <<"#">> }

Lower(s) == [i \in 1..Len(s) |-> FoldCase(s[i])]

\* what the Classifier is to accept: a non-empty string that starts, in any case,
\* with none of the external prefixes
Accepted(v) ==
    /\ v.k = "str"
    /\ v.s # <<>>
    /\ ~\E x \in ExternalPrefixes : StartsWith(Lower(v.s), x)

\* link[href] and script[src] are the candidate attributes
IsCandidate(n) == IsElement(heap[n]) /\ heap[n].tag \in {"link", "script"}
CandidateAttr(n) == IF heap[n].tag = "link" THEN "href" ELSE "src"
EligibleAt(n) == IsCandidate(n) /\ Accepted(AttrGet(heap[n].attrs, CandidateAttr(n)))

\* make_path_nodes has just returned a tree; render_path_nodes has returned one
AnnotateOk == ann.status = "ok" /\ pc = "annotated" /\ ~strategy.made
RenderOk == rend.status = "ok"

\* positions of (input tree, annotated tree) and of (annotated tree, rendered tree)
AnnotatePairs == Aligned(tree, ann.root)
RenderPairs == Aligned(rend.input, rend.root)

\* C1: after render_path_nodes(make_path_nodes(T, c), target, strategy) no attribute
\* of the returned tree holds a Resolved Asset Reference
C1_RenderedTreeHasNoReference ==
    RenderOk =>
        \A n \in Subtree(rend.root) :
            \A i \in DOMAIN heap[n].attrs : ~IsPathValue(heap[n].attrs[i].value)

\* C2: make_path_nodes either returns a tree of T's shape in which each eligible
\* link[href] / script[src] holds a reference whose handle passed is_file, or it
\* raises one of the three errors and returns no tree
C2_AnnotateAllOrNothing ==
    /\ ann.status \in {"none", "ok", "raised"}
    /\ ann.status = "raised" =>
          /\ ann.root = 0
          /\ pc = "raised"
          /\ ann.err \in {"TypeError", "ModuleNotFoundError", "FileNotFoundError"}
    /\ AnnotateOk =>
          /\ SameShape(tree, ann.root)
          /\ \A ab \in AnnotatePairs :
                EligibleAt(ab[1]) =>
                    \E v \in {AttrGet(heap[ab[2]].attrs, CandidateAttr(ab[1]))} :
                        /\ v.k = "ref"
                        /\ ResolveParts(<<>>, v.traversable.parts) \in files
                        /\ \E j \in DOMAIN ann.log :
                              /\ ann.log[j].op = "is_file"
                              /\ ann.log[j].path = v.traversable
                              /\ ann.log[j].ret

\* a tree in which two elements are eligible was annotated
C2_Witness ==
    /\ AnnotateOk
    /\ \E m, n \in Subtree(tree) : m # n /\ EligibleAt(m) /\ EligibleAt(n)

C4_OnlyLinkHrefAndScriptSrc ==
    AnnotateOk =>
        \A ab \in AnnotatePairs :
            /\ heap[ab[2]].tag = heap[ab[1]].tag
            /\ Len(heap[ab[2]].attrs) = Len(heap[ab[1]].attrs)
            /\ \A i \in DOMAIN heap[ab[1]].attrs :
                  /\ heap[ab[2]].attrs[i].name = heap[ab[1]].attrs[i].name
                  /\ heap[ab[2]].attrs[i].value # heap[ab[1]].attrs[i].value
                        => /\ IsCandidate(ab[1])
                           /\ heap[ab[1]].attrs[i].name = CandidateAttr(ab[1])

\* a rewritten tree holds an accepted string in an attribute that is no candidate
C4_Witness ==
    /\ AnnotateOk
    /\ ann.root # tree
    /\ \E n \in Subtree(tree) : \E i \in DOMAIN heap[n].attrs :
          /\ Accepted(heap[n].attrs[i].value)
          /\ ~(IsCandidate(n) /\ heap[n].attrs[i].name = CandidateAttr(n))

\* C5: _should_process_href(value) is true exactly for a non-empty string without
\* an external prefix in any case; false for None, "" and a non-string; true for a
\* path that starts with ./ or ../
C5_ClassifierAccepts ==
    call.op = "should_process_href" =>
        /\ call.ret = Accepted(call.href)
        /\ call.href.k # "str" => ~call.ret
        /\ call.href = Str(<<>>) => ~call.ret
        /\ (call.href.k = "str" /\ StartsWith(call.href.s, <<".", "/">>)) => call.ret
        /\ (call.href.k = "str" /\ StartsWith(call.href.s, <<".", ".", "/">>)) => call.ret

\* the Classifier refused an external prefix written in mixed case
C5_Witness ==
    /\ call.op = "should_process_href"
    /\ call.href = Str(<<"H", "t", "T", "p", "S", ":", "/", "/", "a", ".", "c", "s", "s">>)
    /\ ~call.ret

\* "./" or "../" dropped once from the front of a relative asset string
StripPrefix(asset) ==
    IF StartsWith(asset, <<".", "/">>) THEN SubSeq(asset, 3, Len(asset))
    ELSE IF StartsWith(asset, <<".", ".", "/">>) THEN SubSeq(asset, 4, Len(asset))
    ELSE asset

\* the Canonical Path the asset string is to get: the slash form of the qualifier
\* whose resource root is used, joined with the sub-path
CanonicalPathFor(component, asset) ==
    IF Contains(asset, <<":">>)
    THEN Truediv(PurePosixPath(Replace(SplitOnce(asset, <<":">>)[1], ".", "/")),
                 SplitOnce(asset, <<":">>)[2])
    ELSE Truediv(PurePosixPath(Replace(normalize_module_name(component.module), ".", "/")),
                 StripPrefix(asset))

\* C6: the module_path of every reference make_path_nodes builds is the slash form
\* of the qualifier joined with the cleaned sub-path; for "q:sub" that is q/sub for
\* every component
C6_CanonicalPathOfQualifier ==
    AnnotateOk =>
        \A ab \in AnnotatePairs :
            EligibleAt(ab[1]) =>
                \E v \in {AttrGet(heap[ab[2]].attrs, CandidateAttr(ab[1]))} :
                    v.k = "ref" =>
                        v.module_path =
                            CanonicalPathFor(comp, AttrGet(heap[ab[1]].attrs,
                                                           CandidateAttr(ab[1])).s)

\* the length of the longest common prefix of two lists
RECURSIVE CommonLen(_, _)
CommonLen(a, b) ==
    IF a # <<>> /\ b # <<>> /\ Head(a) = Head(b) THEN 1 + CommonLen(Tail(a), Tail(b))
    ELSE 0

\* no relative path leads from directory dir to src: the anchors differ, or a part
\* of dir outside the common prefix is ".."
NoDecomposition(src, dir) ==
    \/ src.root # dir.root
    \/ \E i \in (CommonLen(src.parts, dir.parts) + 1)..Len(dir.parts) :
          dir.parts[i] = <<".", ".">>

\* the relative path from dir to src: one ".." for each part of dir outside the
\* common prefix, then the rest of src
UpwardPath(src, dir) ==
    [root |-> <<>>,
     parts |-> Repeat(<<".", ".">>, Len(dir.parts) - CommonLen(src.parts, dir.parts))
               \o SubSeq(src.parts, CommonLen(src.parts, dir.parts) + 1, Len(src.parts))]

\* the attributes render_path_nodes has written: <<b, c, i>>, attribute i of the
\* Path-bearing element b holds a reference, c stands for b in the rendered tree
RenderedRefs ==
    UNION { { <<bc[1], bc[2], i>> :
                i \in { j \in DOMAIN heap[bc[1]].attrs :
                          /\ heap[bc[1]].type = "TraversableElement"
                          /\ heap[bc[1]].attrs[j].value.k = "ref" } } :
            bc \in RenderPairs }

\* C7: without Site Prefix the string written for a reference is the relative path
\* from the target's directory to the reference's Canonical Path
C7_RelativeToCanonicalPath ==
    (RenderOk /\ ~strategy.site_prefix.some) =>
        \A x \in RenderedRefs :
            ~NoDecomposition(heap[x[1]].attrs[x[3]].value.module_path, Parent(rend.target))
                => heap[x[2]].attrs[x[3]].value =
                       Str(PathStr(UpwardPath(heap[x[1]].attrs[x[3]].value.module_path,
                                              Parent(rend.target))))

\* sitePrefix + "/" + Canonical Path
Prefixed(site_prefix, module_path) ==
    PathStr(site_prefix.path) \o <<"/">> \o PathStr(module_path)

\* C8: with a Site Prefix the string for a reference is sitePrefix + "/" + Canonical
\* Path, from a direct calculate_path call and from render_path_nodes alike
C8_SitePrefixThenCanonicalPath ==
    /\ (call.op = "calculate_path" /\ strategy.site_prefix.some /\ call.source.k = "ref")
          => call.ret = Prefixed(strategy.site_prefix, call.source.module_path)
    /\ (RenderOk /\ strategy.site_prefix.some) =>
          \A x \in RenderedRefs :
              heap[x[2]].attrs[x[3]].value =
                  Str(Prefixed(strategy.site_prefix,
                               heap[x[1]].attrs[x[3]].value.module_path))

C10_EveryCallCollects ==
    /\ (call.op = "calculate_path" /\ call.source.k = "ref")
          => AssetReference(call.source.traversable, call.source.module_path)
                \in strategy.collected_assets
    /\ (RenderOk /\ strategy.hasCollected) =>
          \A x \in RenderedRefs :
              AssetReference(heap[x[1]].attrs[x[3]].value.traversable,
                             heap[x[1]].attrs[x[3]].value.module_path)
                  \in strategy.collected_assets

\* C10 amended: render_path_nodes leaves an Asset Reference for every reference of
\* every Path-bearing element it renders and keeps the earlier entries; a direct
\* calculate_path call leaves collected_assets as it was
C10_RenderCollects ==
    /\ call.op = "calculate_path" => strategy.collected_assets = call.before
    /\ (RenderOk /\ strategy.hasCollected) =>
          /\ rend.before \subseteq strategy.collected_assets
          /\ \A x \in RenderedRefs :
                AssetReference(heap[x[1]].attrs[x[3]].value.traversable,
                               heap[x[1]].attrs[x[3]].value.module_path)
                    \in strategy.collected_assets

\* a render collected the reference of a Path-bearing element
C10_Witness ==
    /\ RenderOk
    /\ RenderedRefs # {}
    /\ strategy.collected_assets # {}

\* C11: Asset References with equal module_path are equal whatever their handles,
\* so collected_assets never holds two entries with the same Canonical Path
C11_DedupByCanonicalPath ==
    strategy.made =>
        \A a, b \in strategy.collected_assets : a.module_path = b.module_path => a = b

\* the Resolved Asset References held by attributes of the tree rooted at n
RefsIn(n) ==
    UNION { { heap[m].attrs[i].value :
                i \in { j \in DOMAIN heap[m].attrs : heap[m].attrs[j].value.k = "ref" } } :
            m \in Subtree(n) }

\* C12: after the render_path_nodes calls made with one strategy, the Canonical
\* Paths in collected_assets are exactly those of the Resolved Asset References of
\* the rendered tree, and a render after the first one leaves the set as it was
C12_CollectedExactlyRendered ==
    pc = "rendered" =>
        /\ { a.module_path : a \in strategy.collected_assets }
              = { v.module_path : v \in RefsIn(ann.root) }
        /\ nrender >= 2 => strategy.collected_assets = rend.before

\* the handle denotes a regular file of the file system; it denotes a directory
IsRegularFile(t) == ResolveParts(<<>>, t.parts) \in files
IsDirectory(t) ==
    \E f \in files : Len(f) > Len(t.parts) /\ IsPrefix(ResolveParts(<<>>, t.parts), f)

\* sub occurs in s
Occurs(s, sub) ==
    \E i \in 1..(Len(s) + 1) : i + Len(sub) - 1 <= Len(s) /\ SubSeq(s, i, i + Len(sub) - 1) = sub

\* C13: _validate_asset_exists returns normally exactly when the handle is a regular
\* file; otherwise it raises FileNotFoundError with a message that contains the
\* handle's last segment, the attribute name, the component's __name__ (else its
\* class name), its __module__ (else "unknown") and the handle's full path
C13_ValidateRaisesWithContext ==
    call.op = "validate_asset_exists" =>
        /\ (call.ret.err = "none") <=> IsRegularFile(call.asset_path)
        /\ call.ret.err # "none" =>
              /\ call.ret.err = "FileNotFoundError"
              /\ Occurs(call.ret.info.message,
                          call.asset_path.parts[Len(call.asset_path.parts)])
              /\ Occurs(call.ret.info.message, Chars(call.attr_name))
              /\ Occurs(call.ret.info.message,
                          Chars(IF call.component.hasName THEN call.component.name
                                ELSE call.component.className))
              /\ Occurs(call.ret.info.message,
                          IF call.component.hasModule THEN call.component.module
                          ELSE S_unknown)
              /\ Occurs(call.ret.info.message, PathStr(call.asset_path))

\* the validator refused a directory on behalf of a component without __name__ and
\* without __module__
C13_Witness ==
    /\ call.op = "validate_asset_exists"
    /\ IsDirectory(call.asset_path)
    /\ call.component = NoneComponent
    /\ call.ret.err = "FileNotFoundError"
    /\ Occurs(call.ret.info.message, S_unknown)
    /\ Occurs(call.ret.info.message, S_NoneType)

\* the nodes of the tree rooted at n in document order: a node, then its children
\* from left to right
RECURSIVE PreOrder(_)
RECURSIVE PreOrderAll(_)
PreOrder(n) == <<n>> \o PreOrderAll(heap[n].children)
PreOrderAll(children) ==
    IF children = <<>> THEN <<>> ELSE PreOrder(Head(children)) \o PreOrderAll(Tail(children))

\* the eligible elements of T in document order, and the asset string of one
EligibleSeq == SelectSeq(PreOrder(tree), EligibleAt)
AssetAt(n) == AttrGet(heap[n].attrs, CandidateAttr(n)).s

\* what resolving and checking the asset of n alone comes to: the error and what
\* it reports
AloneOutcome(n) ==
    LET made == make_traversable(<<>>, comp, AssetAt(n))
    IN  IF made.err # "none"
        THEN [err |-> made.err, info |-> made.val]
        ELSE validate_asset_exists(made.val, comp, CandidateAttr(n))

WouldFail(i) == AloneOutcome(EligibleSeq[i]).err # "none"

IsResolveEvent(ev) == ev.op = "resolve"
IsFileEvent(ev) == ev.op = "is_file"

HasColon(asset) == \E i \in DOMAIN asset : asset[i] = ":"

\* the missing-context error: the TypeError that names the component
IsMissingContext(ret, component) == ret.err = "TypeError" /\ ret.val = component.id

\* C15: make_traversable raises the TypeError that names the component exactly when
\* the asset has no colon and the component has no __module__; for an asset with a
\* colon every component gets the same result
C15_MissingContextOnlyForRelative ==
    call.op = "make_traversable" =>
        /\ IsMissingContext(call.ret, call.component)
              <=> (~HasColon(call.asset) /\ ~call.component.hasModule)
        /\ HasColon(call.asset) =>
              \A c \in ResolveComponents :
                  /\ make_traversable(call.before, c, call.asset).err = call.ret.err
                  /\ make_traversable(call.before, c, call.asset).val = call.ret.val

\* a package-form asset was resolved to a file for a component without __module__
C15_Witness ==
    /\ call.op = "make_traversable"
    /\ call.component = PlainObject
    /\ call.asset = S_site_app_js
    /\ call.ret.err = "none"
    /\ IsRegularFile(call.ret.val)

C17_SplitAtFirstColon ==
    /\ call.op = "detect_path_type" =>
          ((call.ret = "package") <=> HasColon(call.asset))
    /\ call.op = "detect_path_type" => call.ret \in {"package", "relative"}
    /\ (call.op = "parse_package_path" /\ HasColon(call.asset)) =>
          /\ call.ret[1] \o <<":">> \o call.ret[2] = call.asset
          /\ ~HasColon(call.ret[1])
    /\ (call.op = "parse_package_path" /\ call.asset = S_pkg_sub_file_txt) =>
          call.ret = <<S_pkg, S_sub_file_txt>>
    /\ (call.op = "parse_package_path" /\ call.asset = S_colon_file) =>
          call.ret = <<<<>>, S_file_txt>>
    /\ (call.op = "parse_package_path" /\ call.asset = S_pkg_colon) =>
          call.ret = <<S_pkg, <<>>>>

\* a string with two colons was parsed
C17_Witness ==
    /\ call.op = "parse_package_path"
    /\ call.asset = S_pkg_sub_file_txt
    /\ HasColon(call.ret[2])

\* the handle a relative asset string is to resolve to: the sub-path left after one
\* leading "./" or "../" is dropped, below the root of the component's qualifier
HandleFor(component, asset) ==
    Truediv(PackageDir(install, normalize_module_name(component.module)),
            StripPrefix(asset))

\* C18: for a relative asset string the resolver and the module_path computation
\* drop one leading "./" or "../" and keep the rest: the handle is the root of the
\* component's qualifier joined with that sub-path, the module_path the qualifier's
\* slash form joined with it
C18_StripSinglePrefix ==
    /\ (call.op = "make_traversable" /\ ~HasColon(call.asset) /\ call.ret.err = "none")
          => call.ret.val = HandleFor(call.component, call.asset)
    /\ AnnotateOk =>
          \A ab \in AnnotatePairs :
              (EligibleAt(ab[1]) /\ ~HasColon(AssetAt(ab[1]))) =>
                  /\ AttrGet(heap[ab[2]].attrs, CandidateAttr(ab[1])).traversable
                        = HandleFor(comp, AssetAt(ab[1]))
                  /\ AttrGet(heap[ab[2]].attrs, CandidateAttr(ab[1])).module_path
                        = CanonicalPathFor(comp, AssetAt(ab[1]))

\* the node is a TraversableElement that holds a path value in some attribute
CarriesPath(node) ==
    /\ node.type = "TraversableElement"
    /\ \E i \in DOMAIN node.attrs : IsPathValue(node.attrs[i].value)

\* the rendered element has the tag, the children and the attribute names of the
\* node, in order, it is a plain Element, and strings and None are kept
RenderFrame(node, ret) ==
    /\ ret.type = "Element"
    /\ ret.tag = node.tag
    /\ ret.children = node.children
    /\ Len(ret.attrs) = Len(node.attrs)
    /\ \A i \in DOMAIN node.attrs :
          /\ ret.attrs[i].name = node.attrs[i].name
          /\ node.attrs[i].value.k \in {"str", "none"}
                => ret.attrs[i].value = node.attrs[i].value

\* C19: _render_transform_node turns a TraversableElement into a plain Element in
\* which every attribute that held a Resolved Asset Reference, whatever its name,
\* holds the string calculate_path returns for that reference, and strings, None,
\* tag and children are kept; every other node is returned as the same object
C19_RenderReplacesReferences ==
    (call.op = "render_transform_node" /\ call.err = "none") =>
        IF CarriesPath(call.node)
        THEN /\ ~call.same
             /\ RenderFrame(call.node, call.ret)
             /\ \A i \in DOMAIN call.node.attrs :
                   call.node.attrs[i].value.k = "ref" =>
                       call.ret.attrs[i].value =
                           Str(calculate_path(strategy.site_prefix,
                                              call.node.attrs[i].value, call.target))
        ELSE call.same /\ call.ret = call.node

\* node m is a Path-bearing element that carries a Resolved Asset Reference
CarriesRef(m) ==
    /\ heap[m].type = "TraversableElement"
    /\ \E i \in DOMAIN heap[m].attrs : heap[m].attrs[i].value.k = "ref"

\* C20: render_path_nodes returns every subtree without a Path-bearing element that
\* carries a reference as the same object; a call on a tree without any leaves
\* collected_assets as it was; a tree that a render returned is returned unchanged
C20_RenderKeepsIdentity ==
    RenderOk =>
        /\ \A bc \in RenderPairs :
              (\A m \in Subtree(bc[1]) : ~CarriesRef(m)) => bc[2] = bc[1]
        /\ (\A m \in Subtree(rend.input) : ~CarriesRef(m))
              => strategy.collected_assets = rend.before
        /\ rend.again =>
              (rend.root = rend.input /\ strategy.collected_assets = rend.before)

\* a tree that a render had rewritten was rendered again
C20_Witness ==
    /\ RenderOk
    /\ rend.again
    /\ rend.input # ann.root
    /\ heap[rend.input].children # <<>>
    /\ rend.root = rend.input

-----------------------------------------------------------------------------
(* The Walker's order of calls *)

IsTransformEvent(ev) == ev.op = "transform"

\* the nodes transform_fn was called on, in the order of the calls
Visits(log) ==
    [i \in 1..Len(SelectSeq(log, IsTransformEvent)) |->
        SelectSeq(log, IsTransformEvent)[i].node]

\* the walks made so far: the root handed to _walk_tree, the transform function
\* ("closure" for those of make_path_nodes and render_path_nodes), the calls logged,
\* whether the walk returned, and the object it returned
Walks ==
    (IF ann.status = "none" THEN {}
     ELSE {[root |-> tree, fn |-> "closure", visits |-> Visits(ann.log),
            ok |-> ann.status = "ok", ret |-> ann.root]})
    \cup (IF rend.status = "none" THEN {}
          ELSE {[root |-> rend.input, fn |-> "closure", visits |-> Visits(rend.log),
                 ok |-> rend.status = "ok", ret |-> rend.root]})
    \cup (IF call.op # "walk_tree" THEN {}
          ELSE {[root |-> call.root, fn |-> call.fn, visits |-> Visits(call.log),
                 ok |-> call.err = "none", ret |-> call.ret]})

\* the children of what transform_fn returns for n: prune returns an Element without
\* children, every other transform function keeps the children of n
ChildrenOfTransformed(n, fn) ==
    IF fn = "prune" /\ IsElement(heap[n]) THEN <<>> ELSE heap[n].children

\* the walked tree in document order: a node, then the children of the node
\* transform_fn returned for it, from left to right
RECURSIVE WalkedOrder(_, _)
RECURSIVE WalkedOrderAll(_, _)
WalkedOrder(n, fn) == <<n>> \o WalkedOrderAll(ChildrenOfTransformed(n, fn), fn)
WalkedOrderAll(children, fn) ==
    IF children = <<>> THEN <<>>
    ELSE WalkedOrder(Head(children), fn) \o WalkedOrderAll(Tail(children), fn)

-----------------------------------------------------------------------------
(* The decorator *)

IsCallEvent(ev) == ev.op = "func_or_method"

\* the component the wrapper is to annotate with: the first positional argument when
\* f is a bound method or the argument has a __dict__, and f itself when there is no
\* positional argument or the first one has no __dict__
ClaimedComponent ==
    IF call.args # <<>> /\ (call.f.ismethod \/ call.args[1].hasDict)
    THEN call.args[1].obj
    ELSE call.f.obj

\* make_path_nodes(result, component) from the state before the call
AnnotatedWith(component) ==
    make_path_nodes([heap |-> call.before, log |-> <<>>, assets |-> {},
                     cache |-> call.cache_before],
                    call.result, component)

\* C22: the wrapper calls f once with the arguments it was given and returns
\* make_path_nodes(result, component), the component being the first positional
\* argument or f itself; when f raises, nothing is annotated and the error propagates
C22_DecoratorAnnotatesResult ==
    call.op = "path_nodes" =>
        /\ SelectSeq(call.log, IsCallEvent)
              = <<[op |-> "func_or_method", args |-> call.args, kwargs |-> call.kwargs]>>
        /\ call.log[1].op = "func_or_method"
        /\ IF call.f_raises
           THEN /\ call.err = "RuntimeError"
                /\ Len(call.log) = 1
                /\ heap = call.before
           ELSE \A expected \in {AnnotatedWith(ClaimedComponent)} :
                   /\ call.err = expected.err
                   /\ call.ret = expected.id
                   /\ call.info = expected.info
                   /\ call.err = "none" => heap = expected.st.heap
                   /\ Tail(call.log) = expected.st.log

-----------------------------------------------------------------------------
(* The marker of the annotated tree *)

\* an attribute of the node holds a Resolved Asset Reference
HoldsRef(node) == \E i \in DOMAIN node.attrs : node.attrs[i].value.k = "ref"

\* C23: in a tree returned by make_path_nodes an element holds a Resolved Asset
\* Reference exactly when it is a TraversableElement, also when the walk rebuilt it
\* because a child of it changed
C23_MarkerIffReference ==
    AnnotateOk =>
        \A n \in Subtree(ann.root) :
            IsElement(heap[n]) =>
                (HoldsRef(heap[n]) <=> heap[n].type = "TraversableElement")

-----------------------------------------------------------------------------
(* The child steps of a resolution *)

\* the sub-path of an asset: what follows the first colon, or the relative asset
\* without one leading "./" or "../"
SubPath(asset) ==
    IF HasColon(asset)
    THEN SubSeq(asset, 1 + (CHOOSE i \in DOMAIN asset :
                               asset[i] = ":" /\ \A j \in 1..(i - 1) : asset[j] # ":"),
                Len(asset))
    ELSE IF IsPrefix(<<".", "/">>, asset) THEN SubSeq(asset, 3, Len(asset))
    ELSE IF IsPrefix(<<".", ".", "/">>, asset) THEN SubSeq(asset, 4, Len(asset))
    ELSE asset

\* C24: the segments handed to the backend's child navigation are the non-empty
\* segments of the sub-path, in order, for the package form and the relative form
\* (of the relative assets, those are looked at whose cleaned form is the sub-path)
C24_ChildStepPerNonEmptySegment ==
    (call.op = "make_traversable" /\ call.ret.err = "none"
       /\ (HasColon(call.asset) \/ LStrip(call.asset, {".", "/"}) = SubPath(call.asset))) =>
        call.steps = SelectSeq(Split(SubPath(call.asset), "/"), NonEmptyPart)

-----------------------------------------------------------------------------
(* The owning qualifier *)

\* the position of the last dot of m, 0 when it has none, and of the dot before it
LastDot(m) ==
    IF \E i \in DOMAIN m : m[i] = "."
    THEN CHOOSE i \in DOMAIN m : m[i] = "." /\ \A j \in (i + 1)..Len(m) : m[j] # "."
    ELSE 0
DotBefore(m, k) ==
    IF \E i \in 1..(k - 1) : m[i] = "."
    THEN CHOOSE i \in 1..(k - 1) : m[i] = "." /\ \A j \in (i + 1)..(k - 1) : m[j] # "."
    ELSE 0

\* m has at least two dot-separated segments and the last two are identical
LastTwoIdentical(m) ==
    /\ LastDot(m) > 0
    /\ SubSeq(m, LastDot(m) + 1, Len(m))
          = SubSeq(m, DotBefore(m, LastDot(m)) + 1, LastDot(m) - 1)

\* the owning qualifier of a module name: m without its final segment when the last
\* two segments are identical, m otherwise
OwningQualifier(m) ==
    IF LastTwoIdentical(m) THEN SubSeq(m, 1, LastDot(m) - 1) ELSE m

\* the annotations made so far: the component, and the pairs of positions of the
\* tree handed in and the tree returned
Annotations ==
    (IF ann.status = "ok" THEN {[component |-> comp, pairs |-> AnnotatePairs]} ELSE {})
    \cup (IF call.op = "path_nodes" /\ call.err = "none"
          THEN {[component |-> call.chosen.component,
                 pairs |-> Aligned(call.result, call.ret)]}
          ELSE {})

\* C25: _normalize_module_name drops the final segment exactly when the last two
\* segments are identical, one segment per call at most; the handle and the
\* Canonical Path of a relative asset both start at the qualifier so obtained from
\* the component's __module__
C25_NormalizeOnceForBoth ==
    /\ call.op = "normalize_module_name" =>
          /\ call.ret = OwningQualifier(call.module_name)
          /\ Len(call.ret) < Len(call.module_name) <=> LastTwoIdentical(call.module_name)
          /\ Cardinality({i \in DOMAIN call.ret : call.ret[i] = "."})
                >= Cardinality({i \in DOMAIN call.module_name :
                                   call.module_name[i] = "."}) - 1
          /\ call.module_name = <<"a", ".", "b", ".", "b">> => call.ret = <<"a", ".", "b">>
          /\ call.module_name = <<"a", ".", "b", ".", "b", ".", "b">> => call.ret = <<"a", ".", "b", ".", "b">>
          /\ call.module_name = <<"s", "i", "m", "p", "l", "e">> => call.ret = <<"s", "i", "m", "p", "l", "e">>
    /\ \A a \in Annotations :
       \A ab \in a.pairs :
       \A i \in DOMAIN heap[ab[2]].attrs :
          (/\ heap[ab[2]].attrs[i].value.k = "ref"
           /\ heap[ab[1]].attrs[i].value.k = "str"
           /\ ~HasColon(heap[ab[1]].attrs[i].value.s)) =>
              \A q \in {OwningQualifier(a.component.module)} :
                 /\ a.component.hasModule
                 /\ ResourceFiles(q).err = "none"
                 /\ heap[ab[2]].attrs[i].value.traversable.root = ResourceFiles(q).val.root
                 /\ IsPrefix(ResourceFiles(q).val.parts,
                             heap[ab[2]].attrs[i].value.traversable.parts)
                 /\ IsPrefix(PurePosixPath(Replace(q, ".", "/")).parts,
                             heap[ab[2]].attrs[i].value.module_path.parts)
                 /\ heap[ab[2]].attrs[i].value.module_path.root = <<>>

\* a relative asset was annotated for a component whose module ends with two
\* identical segments
C25_Witness ==
    /\ ann.status = "ok"
    /\ LastTwoIdentical(comp.module)
    /\ OwningQualifier(comp.module) = S_mod_heading
    /\ \E ab \in AnnotatePairs :
       \E i \in DOMAIN heap[ab[2]].attrs :
          /\ heap[ab[2]].attrs[i].value.k = "ref"
          /\ ~HasColon(heap[ab[1]].attrs[i].value.s)

-----------------------------------------------------------------------------
(* The input tree of a phase *)

\* C26: make_path_nodes and render_path_nodes, returning or raising, leave every
\* node reachable from the root they are given as it was: tag, attributes and
\* children; a render of the annotated tree finds the references annotate put there
C26_InputTreeUnchanged ==
    [][/\ ann' # ann =>
            \A n \in Subtree(tree') : heap'[n] = heap[n]
       /\ (call' # call /\ call'.op = "path_nodes" /\ ~call'.f_raises) =>
            \A n \in Subtree(call'.result) : heap'[n] = heap[n]
       /\ rend' # rend =>
            /\ \A n \in Subtree(rend'.input) : heap'[n] = heap[n]
            /\ ann'.status = "ok" => \A n \in Subtree(ann.root) : heap'[n] = heap[n]]_vars

\* the annotated tree, which holds a reference, was rendered a second time, and
\* both renders built a new tree
C26_Witness ==
    /\ nrender = 2
    /\ rend.status = "ok"
    /\ rend.input = ann.root
    /\ ~rend.again
    /\ rend.root # ann.root
    /\ \E n \in Subtree(ann.root) : CarriesRef(n)
    /\ Cardinality(strategy.collected_assets) >= 1

-----------------------------------------------------------------------------
(* When existence is checked *)

\* C27: make_path_nodes resolves and then checks, once, the asset of each eligible
\* element when it visits it, before it builds the new element and before it visits
\* the next one; it resolves and checks nothing else; render_path_nodes checks
\* nothing and returns a tree also when the files are gone
C27_ExistenceCheckedInAnnotateOnly ==
    /\ (pc = "raised" \/ AnnotateOk) =>
          \A L \in {ann.log} :
             /\ \A k \in DOMAIN L :
                   /\ L[k].op = "transform" =>
                         IF EligibleAt(L[k].node)
                         THEN /\ k + 1 <= Len(L)
                              /\ L[k + 1] = [op |-> "resolve", asset |-> AssetAt(L[k].node)]
                              /\ k + 1 = Len(L) =>
                                    ann.status = "raised" /\ ann.err # "FileNotFoundError"
                              /\ k + 2 <= Len(L) => L[k + 2].op = "is_file"
                              /\ k + 3 <= Len(L) => L[k + 3].op = "transform"
                         ELSE k + 1 <= Len(L) => L[k + 1].op = "transform"
                   /\ L[k].op = "resolve" =>
                         k > 1 /\ L[k - 1].op = "transform" /\ EligibleAt(L[k - 1].node)
                   /\ L[k].op = "is_file" =>
                         /\ k > 2 /\ L[k - 1].op = "resolve"
                         /\ ~L[k].ret =>
                               k = Len(L) /\ ann.status = "raised"
                                  /\ ann.err = "FileNotFoundError"
             /\ Cardinality({n \in DOMAIN heap : heap[n].type = "TraversableElement"})
                   = Cardinality({k \in DOMAIN L : L[k].op = "is_file" /\ L[k].ret})
    /\ rend.status # "none" =>
          /\ rend.status = "ok" \/ (rend.err = "ValueError" /\ strategy.rejects # {})
          /\ \A k \in DOMAIN rend.log : rend.log[k].op = "transform"
    /\ pc = "stale" =>
          /\ \A n \in Subtree(rend.input) : CarriesRef(n) => ~is_file(
                 heap[n].attrs[CHOOSE i \in DOMAIN heap[n].attrs :
                                   heap[n].attrs[i].value.k = "ref"].value.traversable)
          /\ \A ab \in RenderPairs :
                CarriesRef(ab[1]) =>
                    /\ heap[ab[2]].type = "Element"
                    /\ \A i \in DOMAIN heap[ab[2]].attrs :
                          heap[ab[2]].attrs[i].value.k \in {"str", "none"}

\* two assets were checked during annotate, their files were deleted, and the
\* render that followed returned a tree
C27_Witness ==
    /\ pc = "stale"
    /\ rend.status = "ok"
    /\ rend.root # rend.input
    /\ Cardinality({k \in DOMAIN ann.log : ann.log[k].op = "is_file" /\ ann.log[k].ret}) = 2
    /\ \A k \in DOMAIN ann.log :
          ann.log[k].op = "is_file" => ~is_file(ann.log[k].path)

-----------------------------------------------------------------------------
(* The element the Annotate transform builds *)

IsTraversableElement(n) == heap[n].type = "TraversableElement"

\* the elements whose asset was checked, in the order of the visits (the check of
\* the last one is False when the call raised FileNotFoundError), and the elements
\* the transform built, in the order in which they were built
Replaced ==
    [k \in 1..Len(SelectSeq(ann.log, IsFileEvent)) |->
        SelectSeq(Visits(ann.log), EligibleAt)[k]]
Built == SelectSeq([n \in 1..Len(heap) |-> n], IsTraversableElement)

\* C28: the element make_path_nodes builds for a link or script has the tag, the
\* children objects and the attribute names of the original, in order, and its
\* values, except that of href (link) or src (script), which is the Resolved Asset
\* Reference
C28_TransformKeepsTheRest ==
    (pc = "raised" \/ AnnotateOk) =>
        \A built \in {Built} :
        \A replaced \in {Replaced} :
            /\ Len(built) = Len(replaced)
                            - (IF ann.err = "FileNotFoundError" /\ ann.status = "raised"
                               THEN 1 ELSE 0)
            /\ \A k \in DOMAIN built :
               \A new \in {heap[built[k]]} :
               \A old \in {heap[replaced[k]]} :
                  /\ built[k] # replaced[k]
                  /\ new.tag = old.tag
                  /\ new.tag \in {"link", "script"}
                  /\ new.children = old.children
                  /\ Len(new.attrs) = Len(old.attrs)
                  /\ \A i \in DOMAIN old.attrs :
                        /\ new.attrs[i].name = old.attrs[i].name
                        /\ IF old.attrs[i].name = (IF old.tag = "link" THEN "href" ELSE "src")
                           THEN /\ new.attrs[i].value.k = "ref"
                                /\ new.attrs[i].value.traversable
                                      = make_traversable(<<>>, comp, old.attrs[i].value.s).val
                           ELSE new.attrs[i].value = old.attrs[i].value

\* a script with a child and a second attribute was replaced
C28_Witness ==
    /\ AnnotateOk
    /\ \E k \in DOMAIN Built :
          /\ heap[Built[k]].tag = "script"
          /\ heap[Built[k]].children # <<>>
          /\ Len(heap[Built[k]].attrs) = 2
          /\ heap[Built[k]].attrs[2].value = None

-----------------------------------------------------------------------------
(* Annotate on its own output *)

\* C29: make_path_nodes on a tree make_path_nodes returned gives back the very same
\* object, for every component; it resolves nothing, checks nothing and does not
\* raise
C29_AnnotateIdempotent ==
    call.op = "make_path_nodes_again" =>
        /\ call.err = "none"
        /\ call.ret = ann.root
        /\ heap = call.before
        /\ cache = call.cache_before
        /\ \A k \in DOMAIN call.log : call.log[k].op = "transform"
        /\ Visits(call.log) = PreOrder(ann.root)

\* the tree of the first call holds a reference, and the second call was made with
\* a component that has no __module__
C29_Witness ==
    /\ call.op = "make_path_nodes_again"
    /\ call.component = NoneComponent
    /\ comp = Heading
    /\ call.ret = ann.root
    /\ ann.root # tree
    /\ Cardinality(RefsIn(ann.root)) = 2

-----------------------------------------------------------------------------
(* collected_assets when calculate_path raises *)

\* the first attribute of node whose value the strategy rejects (0: none)
FirstRejected(node) ==
    IF \E i \in DOMAIN node.attrs : Rejects(strategy, node.attrs[i].value)
    THEN CHOOSE i \in DOMAIN node.attrs :
             /\ Rejects(strategy, node.attrs[i].value)
             /\ \A j \in 1..(i - 1) : ~Rejects(strategy, node.attrs[j].value)
    ELSE 0

\* the Asset References of node up to and including the one calculate_path raises
\* for, of all of them when it raises for none
ReachedRefs(node) ==
    IF ~CarriesPath(node) THEN {}
    ELSE { AssetReference(node.attrs[i].value.traversable, node.attrs[i].value.module_path) :
             i \in { j \in DOMAIN node.attrs :
                       /\ node.attrs[j].value.k = "ref"
                       /\ FirstRejected(node) = 0 \/ j <= FirstRejected(node) } }

\* what a render that visited these nodes leaves in collected_assets
LeftBy(before, visited) ==
    IF strategy.hasCollected
    THEN before \cup UNION { ReachedRefs(node) : node \in visited }
    ELSE before

\* C30: the Asset Reference of an attribute is added before calculate_path is called
\* for it, and only to a strategy that has collected_assets: when calculate_path
\* raises, _render_transform_node and render_path_nodes raise at that attribute, and
\* collected_assets holds what it held before, the references rendered before it and
\* that reference; a strategy without collected_assets renders and collects nothing
C30_CollectedBeforeCalculatePath ==
    /\ call.op = "render_transform_node" =>
          /\ call.err = (IF CarriesPath(call.node) /\ FirstRejected(call.node) # 0
                         THEN "ValueError" ELSE "none")
          /\ strategy.collected_assets = LeftBy(call.before, {call.node})
    /\ rend.status # "none" =>
          /\ \A visited \in {{ heap[rend.log[k].node] : k \in DOMAIN rend.log }} :
                /\ strategy.collected_assets = LeftBy(rend.before, visited)
                /\ rend.status = "raised" <=>
                      \E node \in visited : CarriesPath(node) /\ FirstRejected(node) # 0
          /\ rend.status = "raised" =>
                /\ pc = "failed"
                /\ rend.err = "ValueError"
                /\ FirstRejected(heap[rend.log[Len(rend.log)].node]) # 0
    /\ (strategy.made /\ ~strategy.hasCollected) =>
          /\ strategy.collected_assets = {}
          /\ rend.status \in {"none", "ok"}

\* calculate_path raised for the second reference of an element: both references
\* are in collected_assets
C30_Witness ==
    /\ call.op = "render_transform_node"
    /\ call.err = "ValueError"
    /\ call.before = {}
    /\ FirstRejected(call.node) = 3
    /\ Cardinality(strategy.collected_assets) = 2
====
